---------------------------- MODULE Spec2Model ----------------------------
(***************************************************************************)
(* Model of the efecte-mcp server core: the TTL cache (utils/cache.ts),    *)
(* the credential manager (api/auth.ts) with the API client's 401 recovery *)
(* (api/client.ts) and the auth tools (tools/auth.ts), and the HTTP        *)
(* session registry (server-http.ts).                                      *)
(*                                                                         *)
(* Time is a discrete clock `now` (Date.now()).  One step of the model is  *)
(* one run-to-completion turn of the Node.js event loop: a handler runs    *)
(* from its start to its first suspension (await of network I/O), and a    *)
(* completion runs the continuation together with the promise reactions    *)
(* that the same microtask drain executes.                                 *)
(***************************************************************************)
EXTENDS Integers, Sequences, FiniteSets, TLC

VARIABLES
    now,             \* Date.now()
    \* ---- credential manager (AuthManager) ----
    tokenCache,      \* AuthManager.tokenCache: Cache<string>, key -> entry
    tokenExpiresAt,  \* AuthManager.tokenExpiresAt
    authPromise,     \* AuthManager.authPromise: 0 (null) or the attempt it belongs to
    attempts,        \* login requests issued so far, in issue order
    proc,            \* the API client calls in progress, one per caller
    cachedStale,     \* history: the stored token is of a request older than a clearToken()
    cleared,         \* history: clearToken() has been called at least once
    freshPending,    \* history: clearToken() returned and no getToken() ran since
    lastGet,         \* history: what the latest getToken() call did
    sinceClear,      \* history: clearToken() returned and no login request succeeded since
    lastDone,        \* history: the login request answered in the latest step
    \* ---- a Cache instance used through its public methods ----
    cache,           \* Cache.cache: the Map of the instance
    written,         \* history: per key, the latest set() not yet deleted or cleared
    lastRead,        \* history: the latest get(): key, result, time, `written` of the key
    cleanup,         \* cleanupInterval, the interval timers not cleared, and
                     \* (history) the latest startCacheCleanup/stopCacheCleanup call
    \* ---- HTTP session registry (EfecteHttpServer) ----
    transports,      \* EfecteHttpServer.transports: session id -> TransportInfo
    conns,           \* the (server, transport) pairs created by initialization POSTs
    nextSid,         \* the next session id a transport generates (randomUUID: fresh)
    closes,          \* the pairs whose close(), started by the sweep / by stop(), is pending;
                     \* stopFailed (history): a close() started by stop() was rejected
    delWait,         \* per session id, the DELETE handlers awaiting its close()
    timer,           \* sessionCleanupInterval is set
    phase,           \* "running", "stopping" (stop() awaits the closes), "stopped"
    removal,         \* history: per session id, what removed or closed it first
    swept,           \* history: the session ids an idle sweep has removed
    justSwept,       \* history: an idle sweep has run at the present clock value
    lastResp,        \* history: the latest request handled and its answer
    allowedOrigins,  \* efecteConfig.transport.http.allowedOrigins (<<>>: undefined)
    lastOrigin,      \* history: the Origin/Referer value the latest request carried
    \* ---- reference diagnostics (utils/reference-helpers, tools/datacard.ts) ----
    target,          \* the literal of the filter clause / findSimilarMatch's target
    options,         \* the names of the referenced template / findSimilarMatch's options
    suggestion,      \* the value the latest findSimilarMatch() call returned
    ldc,             \* the listDataCards() call in progress and the error it raised
    \* ---- the cache of reference names (utils/reference-helpers) ----
    refs,            \* referenceValuesCache, the listReferenceValues() calls in
                     \* progress, and (history) what was stored and the latest call
    \* ---- a data-card operation (tools/datacard.ts) ----
    dcop,            \* the operation in progress: its template codes, the requests
                     \* it has issued and answered, and the error it raised
    \* ---- the stdio-to-HTTP bridge (http-proxy.js) ----
    bridge           \* sessionId, sessionLastActivity, the messages in flight, the
                     \* ids the server has issued, and (history) the latest step

authVars == <<tokenCache, tokenExpiresAt, authPromise, attempts, proc,
              cachedStale, cleared, freshPending, lastGet, sinceClear, lastDone>>

cacheVars == <<cache, written, lastRead, cleanup>>

vars == <<now, tokenCache, tokenExpiresAt, authPromise, attempts, proc,
          cachedStale, cleared, freshPending, lastGet, sinceClear, lastDone,
          cache, written, lastRead, cleanup,
          transports, conns, nextSid, closes, delWait, timer, phase,
          removal, swept, justSwept, lastResp, allowedOrigins, lastOrigin,
          target, options, suggestion, ldc, refs, dcop, bridge>>

originVars == <<allowedOrigins, lastOrigin>>

httpVars == <<transports, conns, nextSid, closes, delWait, timer, phase,
              removal, swept, justSwept, lastResp, allowedOrigins, lastOrigin>>

diagVars == <<target, options, suggestion, ldc>>

toolVars == <<refs, dcop, bridge>>

-----------------------------------------------------------------------------
(* Bounds of the model *)

NumProcs == 2
MaxAttempts == 2
MaxTime == 2

(* Configuration (utils/config.ts), in clock ticks *)
AuthTokenTTL == 2
TokenRefreshThreshold == 1

MaxValue == 2
MaxTtl == 2
MaxTimers == 2

MaxConns == 2
NumClients == 1

MaxLen == 3
MaxOptions == 2
MaxNames == 1
NumRefCallers == 2
MaxCodeLen == 2
MaxCodes == 2
MaxMessages == 3

(* http-proxy.js: SESSION_TIMEOUT, in clock ticks *)
ProxySessionTimeout == 1
MaxRequests == 3

(* utils/reference-helpers: the limit cap, and the TTL in clock ticks *)
RefLimitCap == 200
RefValuesTTL == 1

(* Configuration (utils/config.ts), in clock ticks *)
SessionTimeout == 1

Procs == 1..NumProcs
Conns == 1..MaxConns
Sids == 1..MaxConns
Clients == 1..NumClients
NoSid == 0
Keys == {"k1", "k2"}
Values == 1..MaxValue
Ttls == 0..MaxTtl
Null == 0
NoPromise == 0
TokenKey == "token"

-----------------------------------------------------------------------------
(* utils/cache.ts: class Cache.  A cache is a function from the keys      *)
(* present in the Map to entries [value, expiresAt].                       *)

EmptyCache == [k \in {} |-> Null]

CacheSet(c, k, v, ttlMs, t) ==
    [x \in (DOMAIN c) \cup {k} |->
        IF x = k THEN [value |-> v, expiresAt |-> t + ttlMs] ELSE c[x]]

\* mutant: the expiry test with the boundary included
IsExpired_Inclusive(entry, t) == t >= entry.expiresAt

\* the expiry test of get() (line 35) and cleanExpired() (line 68)
IsExpired(entry, t) == t > entry.expiresAt

\* the value get(k) returns at time t (Null is a miss)
CacheGet(c, k, t) ==
    IF k \notin DOMAIN c THEN Null
    ELSE IF IsExpired(c[k], t) THEN Null
    ELSE c[k].value

\* the Map after get(k) at time t (an expired entry is deleted on read)
CacheAfterGet(c, k, t) ==
    IF k \in DOMAIN c /\ IsExpired(c[k], t)
    THEN [x \in (DOMAIN c) \ {k} |-> c[x]]
    ELSE c

CacheDelete(c, k) == [x \in (DOMAIN c) \ {k} |-> c[x]]

\* mutant: cleanExpired() with an expiry test of its own, boundary included
CacheCleanExpired_Inclusive(c, t) ==
    [x \in {k \in DOMAIN c : t < c[k].expiresAt} |-> c[x]]

\* the Map after cleanExpired() at time t: lines 63-77
CacheCleanExpired(c, t) ==
    [x \in {k \in DOMAIN c : ~IsExpired(c[k], t)} |-> c[x]]

NoWrite == [set |-> FALSE, value |-> Null, expiresAt |-> 0]
NoRead == [key |-> "none", value |-> Null, at |-> 0, present |-> FALSE, w |-> NoWrite]

\* Cache.set: lines 21-25
CSet(k, v, ttlMs) ==
    /\ cache' = CacheSet(cache, k, v, ttlMs, now)
    /\ written' = [written EXCEPT ![k] =
                      [set |-> TRUE, value |-> v, expiresAt |-> now + ttlMs]]
    /\ UNCHANGED <<now, lastRead, cleanup>>

\* Cache.get: lines 27-43
CGet(k) ==
    /\ cache' = CacheAfterGet(cache, k, now)
    /\ lastRead' = [key |-> k, value |-> CacheGet(cache, k, now), at |-> now,
                    present |-> k \in DOMAIN cache, w |-> written[k]]
    /\ UNCHANGED <<now, written, cleanup>>

\* Cache.delete: lines 45-51
CDelete(k) ==
    /\ cache' = CacheDelete(cache, k)
    /\ written' = [written EXCEPT ![k] = NoWrite]
    /\ UNCHANGED <<now, lastRead, cleanup>>

\* Cache.clear: lines 53-57
CClear ==
    /\ cache' = EmptyCache
    /\ written' = [k \in Keys |-> NoWrite]
    /\ UNCHANGED <<now, lastRead, cleanup>>

\* Cache.cleanExpired: lines 63-77
CCleanExpired ==
    /\ cache' = CacheCleanExpired(cache, now)
    /\ UNCHANGED <<now, written, lastRead, cleanup>>

\* the module state of the scheduler: cleanupInterval (line 10) is Null or
\* the handle of the timer setInterval returned; `active` are the timers
\* set and not cleared, `created` counts the setInterval calls
NoCleanup == [interval |-> Null, active |-> {}, created |-> 0,
              op |-> "none", before |-> Null, same |-> TRUE, raised |-> FALSE]

\* mutant: startCacheCleanup() without the guard of line 91
CleanupAfterStart_NoGuard(cl) ==
    [interval |-> cl.created + 1,
     active |-> cl.active \cup {cl.created + 1},
     created |-> cl.created + 1]

\* startCacheCleanup(): lines 90-111
CleanupAfterStart(cl) ==
    IF cl.interval # Null
    THEN [interval |-> cl.interval, active |-> cl.active, created |-> cl.created]
    ELSE [interval |-> cl.created + 1,
          active |-> cl.active \cup {cl.created + 1},
          created |-> cl.created + 1]

\* stopCacheCleanup(): lines 116-122
CleanupAfterStop(cl) ==
    IF cl.interval # Null
    THEN [interval |-> Null, active |-> cl.active \ {cl.interval},
          created |-> cl.created]
    ELSE [interval |-> cl.interval, active |-> cl.active, created |-> cl.created]

\* the scheduler state with the history of the call that produced it
Called(cl, r, name) ==
    [interval |-> r.interval, active |-> r.active, created |-> r.created,
     op |-> name,
     before |-> cl.interval,
     same |-> (r.interval = cl.interval /\ r.active = cl.active),
     raised |-> FALSE]

StartCacheCleanup ==
    /\ (cleanup.interval = Null => cleanup.created < MaxTimers)
    /\ cleanup' = Called(cleanup, CleanupAfterStart(cleanup), "start")
    /\ UNCHANGED <<now, cache, written, lastRead>>

StopCacheCleanup ==
    /\ cleanup' = Called(cleanup, CleanupAfterStop(cleanup), "stop")
    /\ UNCHANGED <<now, cache, written, lastRead>>

\* a timer set by startCacheCleanup() fires: cleanExpired() on every
\* registered cache, lines 98-110
CleanupTimerFires(t) ==
    /\ t \in cleanup.active
    /\ cache' = CacheCleanExpired(cache, now)
    /\ tokenCache' = CacheCleanExpired(tokenCache, now)
    /\ cachedStale' = (cachedStale /\ TokenKey \in DOMAIN tokenCache')
    /\ cleanup' = [cleanup EXCEPT !.op = "fire", !.same = TRUE]
    /\ UNCHANGED <<now, written, lastRead>>

-----------------------------------------------------------------------------
(* api/auth.ts: AuthManager *)

\* mutant: getToken() without the check of the in-flight promise
GetTokenPath_NoJoin(c, exp, ap, t) ==
    IF CacheGet(c, TokenKey, t) # Null /\ exp > t + TokenRefreshThreshold
    THEN "cached"
    ELSE "new"

\* mutant: getToken() that ignores the refresh threshold
GetTokenPath_NoThreshold(c, exp, ap, t) ==
    IF CacheGet(c, TokenKey, t) # Null /\ exp > t
    THEN "cached"
    ELSE IF ap # NoPromise THEN "join"
    ELSE "new"

\* which branch of getToken() is taken: lines 17-30
GetTokenPath(c, exp, ap, t) ==
    IF CacheGet(c, TokenKey, t) # Null /\ exp > t + TokenRefreshThreshold
    THEN "cached"
    ELSE IF ap # NoPromise THEN "join"
    ELSE "new"

\* the error message authenticate() throws for a failed login request
AuthError(out) ==
    CASE out = "401"     -> "Invalid credentials"
      [] out = "neterr"  -> "Authentication failed"
      [] out = "notoken" -> "No token received from authentication endpoint"
      [] OTHER           -> "none"

Outcomes == {"ok", "401", "neterr", "notoken"}

Pending(a) == attempts[a].pending
Outstanding == {a \in 1..Len(attempts) : Pending(a)}
NumCompleted == Len(attempts) - Cardinality(Outstanding)

IdleProc == [pc |-> "idle", att |-> 0, retry |-> FALSE, early |-> FALSE,
             tok |-> Null, n |-> 0]

\* a login request as issued: `stale` becomes true when clearToken() runs
\* while the request is outstanding (history)
NewAttempt(who) == [by |-> who, pending |-> TRUE, stale |-> FALSE]

NoGet == [afterClear |-> FALSE, path |-> "none", stale |-> FALSE,
          readable |-> FALSE, usable |-> FALSE]

NoDone == [att |-> 0, by |-> "none", out |-> "none", err |-> "none",
           waiters |-> {}, errs |-> {}, promise |-> NoPromise]

\* getToken() called by p on the manager state (c, exp, ap): lines 16-36,
\* up to the first await.  `retry` is the X-Retry mark of p's request.
GetTokenStep(p, c, exp, ap, att, cs, retry, isNext, isEarly) ==
    LET path == GetTokenPath(c, exp, ap, now)
        a    == Len(attempts) + 1
        tok  == CacheGet(c, TokenKey, now)
    IN  /\ (path = "new" => Len(attempts) < MaxAttempts)
        /\ tokenCache' = CacheAfterGet(c, TokenKey, now)
        /\ tokenExpiresAt' = exp
        /\ authPromise' = IF path = "new" THEN a ELSE ap
        /\ attempts' = IF path = "new"
                       THEN Append(att, NewAttempt("getToken"))
                       ELSE att
        /\ proc' = [proc EXCEPT ![p] =
                      IF path = "cached"
                      THEN [pc |-> "sent", att |-> 0, retry |-> retry,
                            early |-> isEarly, tok |-> tok,
                            n |-> proc[p].n + 1]
                      ELSE [pc |-> "wait",
                            att |-> IF path = "new" THEN a ELSE ap,
                            retry |-> retry, early |-> isEarly, tok |-> Null,
                            n |-> proc[p].n]]
        /\ freshPending' = FALSE
        /\ lastGet' = [afterClear |-> isNext, path |-> path,
                       stale |-> (path = "cached" /\ cs),
                       readable |-> /\ TokenKey \in DOMAIN c
                                    /\ now <= c[TokenKey].expiresAt,
                       usable |-> /\ TokenKey \in DOMAIN c
                                  /\ now <= c[TokenKey].expiresAt
                                  /\ exp - now > TokenRefreshThreshold]
        /\ lastDone' = NoDone
        /\ cachedStale' = (cs /\ TokenKey \in DOMAIN CacheAfterGet(c, TokenKey, now))


\* mutant: clearToken() that only drops the in-flight promise
ClearTokenState_PromiseOnly(c, exp, ap) ==
    [cache |-> c, exp |-> exp, promise |-> NoPromise]

\* clearToken(): lines 88-93, as a transformation of the manager state
ClearTokenState(c, exp, ap) ==
    [cache |-> CacheDelete(c, TokenKey), exp |-> 0, promise |-> NoPromise]

\* mutant: a failed login request drops the stored token and its expiry
StoreToken_ResetOnFailure(c, exp, a, out, t) ==
    IF out = "ok"
    THEN [cache |-> CacheSet(c, TokenKey, a, AuthTokenTTL, t),
          exp |-> t + AuthTokenTTL]
    ELSE [cache |-> CacheDelete(c, TokenKey), exp |-> 0]

\* what authenticate() writes when the login request succeeds: lines 66-67
StoreToken(c, exp, a, out, t) ==
    IF out = "ok"
    THEN [cache |-> CacheSet(c, TokenKey, a, AuthTokenTTL, t),
          exp |-> t + AuthTokenTTL]
    ELSE [cache |-> c, exp |-> exp]

\* isAuthenticated(): lines 95-97
isAuthenticated(c, exp, t) == CacheGet(c, TokenKey, t) # Null /\ exp > t

\* mutant: the re-sent request is not marked
XRetry_Unset(retry) == retry

\* the X-Retry header of the request after line 101 of the 401 branch
XRetry(retry) == TRUE

\* mutant: the in-flight promise is kept when the request has settled
FinallyPromise_Keep(ap, a) == ap

\* the .finally() handler of getToken(): lines 31-34
FinallyPromise(ap, a) == NoPromise

\* a caller that awaited attempt a resumes with its outcome
Resume(pr, a, out) ==
    IF out = "ok"
    THEN [pr EXCEPT !.pc = "sent", !.att = 0, !.tok = a, !.n = @ + 1]
    ELSE IdleProc

\* a login request that has been answered
DoneAttempt == [by |-> "done", pending |-> FALSE, stale |-> FALSE]

\* history: clearToken() marks the login requests it finds outstanding
MarkStale(att) == [a \in 1..Len(att) |->
                     IF att[a].pending THEN [att[a] EXCEPT !.stale = TRUE]
                     ELSE att[a]]

-----------------------------------------------------------------------------
(* server-http.ts: EfecteHttpServer *)

EmptyRegistry == [s \in {} |-> Null]

\* an Origin or Referer header that is absent (or empty)
NoHeader == ""

\* (`routed` is history: when the session was registered or last had a
\* request routed to it)
Register(reg, sid, c, t) ==
    [s \in (DOMAIN reg) \cup {sid} |->
        IF s = sid THEN [conn |-> c, lastActivity |-> t, routed |-> t]
        ELSE reg[s]]

Remove(reg, S) == [s \in (DOMAIN reg) \ S |-> reg[s]]

\* mutant: a routed request does not refresh the session
Touch_None(reg, sid, t) == reg

\* transportInfo.lastActivity = Date.now(): lines 268, 379
Touch(reg, sid, t) == [reg EXCEPT ![sid].lastActivity = t]

\* history: a request is routed to the session at time t
Routed(reg, sid, t) == [reg EXCEPT ![sid].routed = t]

\* mutant: a known session id is not routed when the body is an
\* initialization request
PostBranch_InitOnly(sid, isInit, reg) ==
    IF sid # NoSid /\ sid \in DOMAIN reg /\ ~isInit THEN "route"
    ELSE IF sid = NoSid /\ isInit THEN "init"
    ELSE "reject"

\* mutant: a request without a session id opens a session whatever its body
PostBranch_AutoCreate(sid, isInit, reg) ==
    IF sid # NoSid /\ sid \in DOMAIN reg THEN "route"
    ELSE IF sid = NoSid THEN "init"
    ELSE "reject"

\* mutant: an initialization request opens a session whatever id it carries
PostBranch_InitAnyId(sid, isInit, reg) ==
    IF sid # NoSid /\ sid \in DOMAIN reg THEN "route"
    ELSE IF isInit THEN "init"
    ELSE "reject"

\* the branch the POST /mcp handler takes: lines 265, 272, 328
PostBranch(sid, isInit, reg) ==
    IF sid # NoSid /\ sid \in DOMAIN reg THEN "route"
    ELSE IF sid = NoSid /\ isInit THEN "init"
    ELSE "reject"

\* mutant: GET /mcp answers an unknown session id like DELETE /mcp does
GetStatus_NotFound(sid, reg) ==
    IF sid = NoSid THEN "400"
    ELSE IF sid \notin DOMAIN reg THEN "404"
    ELSE "stream"

\* the answer of the GET /mcp handler: lines 364-367
GetStatus(sid, reg) ==
    IF sid = NoSid \/ sid \notin DOMAIN reg THEN "400" ELSE "stream"

\* the answer of the DELETE /mcp handler: lines 394-417
DeleteStatus(sid, reg) ==
    IF sid = NoSid THEN "400"
    ELSE IF sid \in DOMAIN reg THEN "204"
    ELSE "404"

\* mutant: the idle test off by one tick
IdleSessions_Late(reg, t) ==
    {s \in DOMAIN reg : t - reg[s].lastActivity > SessionTimeout + 1}

\* mutant: the sweep finds no session idle
IdleSessions_Never(reg, t) == {}

\* mutant: the idle test with the boundary included
IdleSessions_Inclusive(reg, t) ==
    {s \in DOMAIN reg : t - reg[s].lastActivity >= SessionTimeout}

\* the sessions cleanupIdleSessions() selects: lines 459-465
IdleSessions(reg, t) ==
    {s \in DOMAIN reg : t - reg[s].lastActivity > SessionTimeout}

\* mutant: the sweep closes the idle sessions and leaves them registered
RegistryAfterSweep_Keep(reg, idle) == reg

\* the registry after the close loop of cleanupIdleSessions(): lines 468-478
RegistryAfterSweep(reg, idle) == Remove(reg, idle)

\* mutant: the closure notification empties the registry
OnCloseEffect_Clear(reg, cn, c) == EmptyRegistry

\* transport.onclose: lines 298-308
OnCloseEffect(reg, cn, c) ==
    IF cn[c].sid # NoSid /\ cn[c].sid \in DOMAIN reg
    THEN Remove(reg, {cn[c].sid})
    ELSE reg

\* mutant: DELETE /mcp answers without removing the session
RegistryAfterDelete_Keep(reg, sid) == reg

\* the registry when the close() awaited by DELETE /mcp has settled: line 409
RegistryAfterDelete(reg, sid) == Remove(reg, {sid})

\* the pairs on which a server.close() call has not settled yet
Closing ==
    closes.sweep \cup closes.stop
        \cup {c \in 1..Len(conns) : conns[c].sid # NoSid /\ delWait[conns[c].sid] > 0}

NoResp == [op |-> "none", sid |-> NoSid, isInit |-> FALSE, known |-> FALSE,
           status |-> "none", conn |-> 0, regSame |-> TRUE, removal |-> "none",
           failed |-> FALSE]

\* history: the first cause of removal or closure of each session in S
Mark(rm, S, why) ==
    [s \in Sids |-> IF s \in S /\ rm[s] = "none" THEN why ELSE rm[s]]

RemovalOf(sid) == IF sid \in Sids THEN removal[sid] ELSE "none"

InitHttpVars ==
    /\ transports = EmptyRegistry
    /\ conns = <<>>
    /\ nextSid = 1
    /\ closes = [sweep |-> {}, stop |-> {}, stopFailed |-> FALSE]
    /\ delWait = [s \in Sids |-> 0]
    /\ timer = TRUE
    /\ phase = "running"
    /\ removal = [s \in Sids |-> "none"]
    /\ swept = {}
    /\ justSwept = FALSE
    /\ lastResp = NoResp
    /\ lastOrigin = NoHeader

Listening == phase # "stopped"

\* ---- the origin validation middleware: lines 48-86 ----

\* the values an Origin or Referer header and an allow-list entry take:
\* two web origins, two URLs of a scheme that is not special (their
\* URL.origin is opaque), a bare host name and a string that is no URL
WebUrls == {"https://app.example", "https://evil.example"}
OpaqueUrls == {"chrome-extension://abc", "localhost:3000"}
HeaderValues ==
    {NoHeader, "not a url", "chrome-extension://abc"} \cup WebUrls
\* the (Origin, Referer) pairs of a request: an Origin alone, a Referer
\* alone, or both
HeaderPairs ==
    {<<o, NoHeader>> : o \in HeaderValues}
        \cup {<<NoHeader, "https://evil.example">>,
              <<"https://evil.example", "https://app.example">>}

\* new URL(str) does not throw
IsUrl(str) == str \in WebUrls \cup OpaqueUrls

\* new URL(str).origin: the serialized origin, "null" when it is opaque
UrlOrigin(str) == IF str \in WebUrls THEN str ELSE "null"

\* new URL(str).hostname
UrlHostname(str) ==
    CASE str = "https://app.example"    -> "app.example"
      [] str = "https://evil.example"   -> "evil.example"
      [] str = "chrome-extension://abc" -> "abc"
      [] OTHER                          -> ""

\* req.headers.origin || req.headers.referer: line 49
RequestOrigin(originHeader, referer) ==
    IF originHeader # NoHeader THEN originHeader ELSE referer

\* the callback of allowedOrigins.some(): lines 56-64
EntryAllows(allowed, origin) ==
    IF IsUrl(allowed)
    THEN UrlOrigin(origin) = UrlOrigin(allowed)
    ELSE UrlHostname(origin) = allowed \/ UrlOrigin(origin) = allowed

\* the middleware: "next" (the request goes on to the routes) or "403";
\* an undefined allow-list is the empty one (line 53 treats them alike)
OriginCheck(allowed, origin) ==
    IF Len(allowed) > 0 /\ origin # NoHeader
    THEN IF ~IsUrl(origin) THEN "403"
         ELSE IF \E i \in 1..Len(allowed) : EntryAllows(allowed[i], origin)
              THEN "next"
              ELSE "403"
    ELSE "next"

\* the configurations of the allow-list
NoAllowList == <<>>
AllowLists == {NoAllowList, <<"https://app.example">>, <<"app.example">>,
               <<"localhost:3000">>}

\* the request is answered 403 by the middleware and reaches no route
Forbidden(op, sid, isInit) ==
    /\ lastResp' = [op |-> op, sid |-> sid, isInit |-> isInit,
                    known |-> sid \in DOMAIN transports,
                    status |-> "403", conn |-> 0, regSame |-> TRUE,
                    removal |-> RemovalOf(sid),
                    failed |-> FALSE]
    /\ UNCHANGED <<now, transports, conns, nextSid, closes, delWait, timer,
                   phase, removal, swept, justSwept>>

\* POST /mcp: lines 253-359, up to the first await
Post(sid, isInit) ==
    /\ Listening
    /\ LET branch == PostBranch(sid, isInit, transports)
           c == Len(conns) + 1
       IN  /\ (branch = "init" => Len(conns) < MaxConns)
           /\ transports' = IF branch = "route"
                             THEN Routed(Touch(transports, sid, now), sid, now)
                             ELSE transports
           /\ conns' = IF branch = "init"
                        THEN Append(conns, [pc |-> "connect", sid |-> NoSid,
                                            init |-> FALSE, threw |-> FALSE])
                        ELSE conns
           /\ lastResp' = [op |-> "POST", sid |-> sid, isInit |-> isInit,
                           known |-> sid \in DOMAIN transports,
                           status |-> CASE branch = "route" -> "routed"
                                        [] branch = "init" -> "init"
                                        [] OTHER -> "-32000",
                           conn |-> CASE branch = "route" -> transports[sid].conn
                                      [] branch = "init" -> c
                                      [] OTHER -> 0,
                           regSame |-> transports' = transports,
                           removal |-> RemovalOf(sid),
                    failed |-> FALSE]
    /\ UNCHANGED <<now, nextSid, closes, delWait, timer, phase, removal, swept, justSwept>>

\* server.connect(transport) settles: line 311, and the catch of line 319
InitConnected(c, threw) ==
    /\ c \in 1..Len(conns)
    /\ conns[c].pc = "connect"
    /\ conns' = [conns EXCEPT ![c].pc = IF threw THEN "done" ELSE "handle",
                              ![c].threw = threw]
    /\ lastResp' = NoResp
    /\ UNCHANGED <<now, transports, nextSid, closes, delWait, timer, phase,
                   removal, swept, justSwept>>

\* onsessioninitialized(sid): lines 281-295
OnSessionInitialized(reg, cn, c, sid, t) ==
    IF cn[c].init
    THEN [reg |-> reg, conns |-> cn]
    ELSE [reg |-> Register(reg, sid, c, t),
          conns |-> [cn EXCEPT ![c].init = TRUE, ![c].sid = sid]]

\* the transport, handling the initialization request, fires the callback
InitCallback(c) ==
    /\ c \in 1..Len(conns)
    /\ conns[c].pc = "handle"
    /\ LET sid == IF conns[c].sid # NoSid THEN conns[c].sid ELSE nextSid
           r   == OnSessionInitialized(transports, conns, c, sid, now)
       IN  /\ transports' = r.reg
           /\ conns' = r.conns
           /\ nextSid' = IF conns[c].sid # NoSid THEN nextSid ELSE nextSid + 1
    /\ lastResp' = NoResp
    /\ UNCHANGED <<now, closes, delWait, timer, phase, removal, swept, justSwept>>

\* mutant: a failed initialization request leaves the registry alone
RegistryAfterInit_NoCleanup(reg, cn, c, threw) == reg

\* the registry after transport.handleRequest() of the initialization
\* request returned or threw: lines 314-326
RegistryAfterInit(reg, cn, c, threw) ==
    IF threw
    THEN IF cn[c].sid # NoSid /\ cn[c].sid \in DOMAIN reg
         THEN Remove(reg, {cn[c].sid}) ELSE reg
    ELSE IF ~cn[c].init /\ cn[c].sid # NoSid
         THEN Remove(reg, {cn[c].sid}) ELSE reg

InitFinish(c, threw) ==
    /\ c \in 1..Len(conns)
    /\ conns[c].pc = "handle"
    /\ transports' = RegistryAfterInit(transports, conns, c, threw)
    /\ conns' = [conns EXCEPT ![c].pc = "done", ![c].threw = threw]
    /\ removal' = Mark(removal, (DOMAIN transports) \ (DOMAIN transports'), "initerror")
    /\ lastResp' = NoResp
    /\ UNCHANGED <<now, nextSid, closes, delWait, timer, phase, swept, justSwept>>

\* GET /mcp: lines 361-389
Get(sid) ==
    /\ Listening
    /\ LET st == GetStatus(sid, transports) IN
       /\ transports' = IF st = "stream"
                         THEN Routed(Touch(transports, sid, now), sid, now)
                         ELSE transports
       /\ lastResp' = [op |-> "GET", sid |-> sid, isInit |-> FALSE,
                       known |-> sid \in DOMAIN transports,
                       status |-> st,
                       conn |-> IF st = "stream" THEN transports[sid].conn ELSE 0,
                       regSame |-> transports' = transports,
                       removal |-> RemovalOf(sid),
                    failed |-> FALSE]
    /\ UNCHANGED <<now, conns, nextSid, closes, delWait, timer, phase, removal,
                   swept, justSwept>>

\* DELETE /mcp: lines 391-418, up to `await transportInfo.server.close()`.
\* `sync`: the transport fires onclose inside the close() call.
DeleteStart(sid, sync) ==
    /\ Listening
    /\ LET st == DeleteStatus(sid, transports) IN
       IF st = "204"
       THEN LET c == transports[sid].conn IN
            /\ Cardinality({s \in Sids : delWait[s] > 0}) < NumClients
            /\ delWait[sid] < NumClients
            /\ delWait' = [delWait EXCEPT ![sid] = @ + 1]
            /\ transports' = IF sync THEN OnCloseEffect(transports, conns, c)
                              ELSE transports
            /\ removal' = Mark(removal, {sid}, "listed")
            /\ lastResp' = [op |-> "DELETE", sid |-> sid, isInit |-> FALSE,
                            known |-> TRUE, status |-> "closing", conn |-> c,
                            regSame |-> transports' = transports,
                            removal |-> RemovalOf(sid),
                    failed |-> FALSE]
       ELSE /\ ~sync
            /\ lastResp' = [op |-> "DELETE", sid |-> sid, isInit |-> FALSE,
                            known |-> sid \in DOMAIN transports,
                            status |-> st, conn |-> 0, regSame |-> TRUE,
                            removal |-> RemovalOf(sid),
                    failed |-> FALSE]
            /\ UNCHANGED <<transports, delWait, removal>>
    /\ UNCHANGED <<now, conns, nextSid, closes, timer, phase, swept, justSwept>>

\* mutant: a rejected close() ends the DELETE handler
CloseErrorCaught_Rethrown(ok) == ok

\* the handler goes on after `await transportInfo.server.close()` whether
\* the close resolved (ok) or was rejected: try/catch of lines 404-408
CloseErrorCaught(ok) == TRUE

\* the close() awaited by a DELETE handler settles (resolved, or rejected and
\* logged): lines 406-412
DeleteFinish(sid, ok) ==
    /\ sid \in Sids
    /\ delWait[sid] > 0
    /\ transports' = IF CloseErrorCaught(ok)
                      THEN RegistryAfterDelete(transports, sid)
                      ELSE transports
    /\ delWait' = [delWait EXCEPT ![sid] = @ - 1]
    /\ lastResp' = [op |-> "DELETE", sid |-> sid, isInit |-> FALSE,
                    known |-> TRUE,
                    status |-> IF CloseErrorCaught(ok) THEN "204" ELSE "error",
                    conn |-> 0,
                    regSame |-> transports' = transports,
                    removal |-> RemovalOf(sid),
                    failed |-> ~ok]
    /\ UNCHANGED <<now, conns, nextSid, closes, timer, phase, removal, swept, justSwept>>

\* the transport of pair c, being closed, fires onclose
OnClose(c) ==
    /\ c \in Closing
    /\ transports' = OnCloseEffect(transports, conns, c)
    /\ removal' = Mark(removal, (DOMAIN transports) \ (DOMAIN transports'), "listed")
    /\ lastResp' = [op |-> "onclose", sid |-> NoSid, isInit |-> FALSE,
                    known |-> conns[c].sid \in DOMAIN transports,
                    status |-> "none", conn |-> c,
                    regSame |-> transports' = transports,
                    removal |-> RemovalOf(conns[c].sid),
                    failed |-> FALSE]
    /\ UNCHANGED <<now, conns, nextSid, closes, delWait, timer, phase, swept, justSwept>>

\* the interval timer fires: cleanupIdleSessions(), lines 454-483
Sweep ==
    /\ timer
    /\ LET idle == IdleSessions(transports, now)
           cs   == {transports[s].conn : s \in idle}
       IN  /\ transports' = RegistryAfterSweep(transports, idle)
           /\ closes' = [closes EXCEPT !.sweep = @ \cup cs]
           /\ removal' = Mark(removal, idle, "listed")
           /\ swept' = swept \cup idle
    /\ justSwept' = TRUE
    /\ lastResp' = [NoResp EXCEPT !.op = "sweep"]
    /\ UNCHANGED <<now, conns, nextSid, delWait, timer, phase>>

\* a close() started by the sweep settles (resolved, or rejected and
\* logged): lines 474-476
SweepCloseSettle(c, ok) ==
    /\ c \in closes.sweep
    /\ closes' = [closes EXCEPT !.sweep = @ \ {c}]
    /\ lastResp' = [NoResp EXCEPT !.op = "sweepclose", !.conn = c, !.failed = ~ok]
    /\ UNCHANGED <<now, transports, conns, nextSid, delWait, timer, phase,
                   removal, swept, justSwept>>

\* stop(): lines 485-506, up to `await Promise.allSettled(closePromises)`;
\* with nothing to close the rest of stop() follows in the same turn
StopStart ==
    /\ phase = "running"
    /\ timer' = FALSE
    /\ LET cs == {transports[s].conn : s \in DOMAIN transports} IN
       /\ closes' = [closes EXCEPT !.stop = cs]
       /\ phase' = IF cs = {} THEN "stopped" ELSE "stopping"
    /\ removal' = Mark(removal, DOMAIN transports, "listed")
    /\ lastResp' = NoResp
    /\ UNCHANGED <<now, transports, conns, nextSid, delWait, swept, justSwept>>

\* a close() started by stop() settles (resolved, or rejected and logged):
\* lines 499-501
StopCloseSettle(c, ok) ==
    /\ c \in closes.stop
    /\ closes' = [closes EXCEPT !.stop = @ \ {c},
                                !.stopFailed = (@ \/ ~ok)]
    /\ lastResp' = NoResp
    /\ UNCHANGED <<now, transports, conns, nextSid, delWait, timer, phase,
                   removal, swept, justSwept>>

\* mutant: stop() does not wait for the closes it started
AllSettled_NoWait(cl) == TRUE

\* await Promise.allSettled(closePromises) has resumed: line 506
AllSettled(cl) == cl.stop = {}

\* stop(): lines 506-516, after every close it started has settled
StopFinish ==
    /\ phase = "stopping"
    /\ AllSettled(closes)
    /\ transports' = EmptyRegistry
    /\ phase' = "stopped"
    /\ removal' = Mark(removal, DOMAIN transports, "stop")
    /\ lastResp' = NoResp
    /\ UNCHANGED <<now, conns, nextSid, closes, delWait, timer, swept, justSwept>>

-----------------------------------------------------------------------------
(* utils/reference-helpers: the reference-value diagnostics.  A string is  *)
(* a sequence of one-character strings.                                    *)

Chars == {"a", "A", "b"}

UpperCase == <<"A", "B", "C", "D", "E", "F", "G", "H", "I", "J", "K", "L", "M",
               "N", "O", "P", "Q", "R", "S", "T", "U", "V", "W", "X", "Y", "Z">>
LowerCase == <<"a", "b", "c", "d", "e", "f", "g", "h", "i", "j", "k", "l", "m",
               "n", "o", "p", "q", "r", "s", "t", "u", "v", "w", "x", "y", "z">>

\* String.prototype.toLowerCase, one character
toLowerChar(ch) ==
    IF \E i \in 1..Len(UpperCase) : UpperCase[i] = ch
    THEN LowerCase[CHOOSE i \in 1..Len(UpperCase) : UpperCase[i] = ch]
    ELSE ch

\* String.prototype.toLowerCase
toLowerCase(str) == [i \in 1..Len(str) |-> toLowerChar(str[i])]

\* String.prototype.includes
includes(str, sub) ==
    \E i \in 0..(Len(str) - Len(sub)) : SubSeq(str, i + 1, i + Len(sub)) = sub

\* whether a string value passes `if (value)`: the empty string does not
Truthy(str) == str # <<>>

StringsOfLen(n) == [1..n -> Chars]
Strings == UNION {StringsOfLen(n) : n \in 0..MaxLen}
OptionLists == UNION {[1..n -> Strings] : n \in 0..MaxOptions}

Min3(a, b, c) == IF a <= b /\ a <= c THEN a ELSE IF b <= c THEN b ELSE c

\* the inner loop of levenshteinDistance (lines 196-206): row i of the
\* matrix from row i - 1.  A row is the sequence of its cells for
\* j = 0..str1.length; `row` holds the cells of row i computed so far, so
\* the next cell is that of j = Len(row).
RECURSIVE MatrixRow(_, _, _, _)
MatrixRow(str1, ch, prev, row) ==
    IF Len(row) > Len(str1) THEN row
    ELSE LET j == Len(row) IN
         MatrixRow(str1, ch, prev,
                   Append(row, IF ch = str1[j] THEN prev[j]
                               ELSE Min3(prev[j] + 1, row[j] + 1, prev[j + 1] + 1)))

\* the outer loop of levenshteinDistance (lines 195-207): `matrix` holds the
\* rows 0..i-1 computed so far, so the next row is that of i = Len(matrix).
RECURSIVE MatrixRows(_, _, _)
MatrixRows(str1, str2, matrix) ==
    IF Len(matrix) > Len(str2) THEN matrix
    ELSE LET i == Len(matrix) IN
         MatrixRows(str1, str2,
                    Append(matrix, MatrixRow(str1, str2[i], matrix[i], <<i>>)))

\* levenshteinDistance(str1, str2): lines 184-210
levenshteinDistance(str1, str2) ==
    MatrixRows(str1, str2,
               <<[j \in 1..(Len(str1) + 1) |-> j - 1]>>)[Len(str2) + 1][Len(str1) + 1]

Max(a, b) == IF a >= b THEN a ELSE b

\* calculateSimilarity(str1, str2): lines 171-179.  The score 1 - dist/maxLen
\* is kept as the pair [dist, maxLen]; two empty strings score 1.
calculateSimilarity(str1, str2) ==
    LET maxLength == Max(Len(str1), Len(str2)) IN
    IF maxLength = 0 THEN [dist |-> 0, maxLen |-> 1]
    ELSE [dist |-> levenshteinDistance(str1, str2), maxLen |-> maxLength]

\* a.similarity > b.similarity
Better(a, b) == a.dist * b.maxLen < b.dist * a.maxLen

\* mutant: the threshold test with the boundary excluded
MeetsThreshold_Strict(sim) == 5 * (sim.maxLen - sim.dist) > 3 * sim.maxLen

\* similarity >= threshold, with the default threshold 0.6 = 3/5 (line 129)
MeetsThreshold(sim) == 5 * (sim.maxLen - sim.dist) >= 3 * sim.maxLen

NoMatch == [found |-> FALSE, value |-> <<>>]
Match(str) == [found |-> TRUE, value |-> str]

\* Array.prototype.find: the first element with the property, NoMatch if none
\* (hits: the indices of the elements with the property)
FindFirst(list, hits) ==
    IF hits # {}
    THEN Match(list[CHOOSE i \in hits : \A j \in hits : i <= j])
    ELSE NoMatch

\* similarities.sort(...)[0]: the sort is stable, so the first option among
\* those of the highest similarity: lines 151-157
BestOption(tl, list) ==
    LET sim(i) == calculateSimilarity(tl, toLowerCase(list[i]))
        best == CHOOSE i \in 1..Len(list) :
                    /\ \A j \in 1..Len(list) : ~Better(sim(j), sim(i))
                    /\ \A j \in 1..(i - 1) : Better(sim(i), sim(j))
    IN  [option |-> list[best], similarity |-> sim(best)]

\* findSimilarMatch(target, options): lines 129-165
findSimilarMatch(tgt, opts) ==
    IF Len(opts) = 0 THEN NoMatch
    ELSE
    LET targetLower == toLowerCase(tgt)
        IsExact(opt) == toLowerCase(opt) = targetLower
        IsSubstring(opt) == \/ includes(toLowerCase(opt), targetLower)
                            \/ includes(targetLower, toLowerCase(opt))
        exactMatch == FindFirst(opts, {i \in 1..Len(opts) : IsExact(opts[i])})
        substringMatch ==
            FindFirst(opts, {i \in 1..Len(opts) : IsSubstring(opts[i])})
        best == BestOption(targetLower, opts)
    IN  IF exactMatch.found /\ Truthy(exactMatch.value) THEN exactMatch
        ELSE IF substringMatch.found /\ Truthy(substringMatch.value)
             THEN substringMatch
        ELSE IF MeetsThreshold(best.similarity) THEN Match(best.option)
        ELSE NoMatch

\* the inputs of the worked example of findSimilarMatch
ExampleTarget ==
    <<"I", "T", " ", "s", "u", "p", "p", "o", "r", "t", " ", "g",
      "r", "o", "u", "p">>
ExampleIT == <<"I", "T">>
ExampleCustomerSupport ==
    <<"C", "u", "s", "t", "o", "m", "e", "r", " ", "S", "u", "p",
      "p", "o", "r", "t">>
ExampleCloudOperations ==
    <<"C", "l", "o", "u", "d", " ", "O", "p", "e", "r", "a", "t",
      "i", "o", "n", "s">>
ExampleOptions == <<ExampleIT, ExampleCustomerSupport, ExampleCloudOperations>>

\* the inputs of the worked examples of the edit-distance branch
ServisRequst ==
    <<"S", "e", "r", "v", "i", "s", " ", "R", "e", "q", "u", "s", "t">>
ServiceRequest ==
    <<"S", "e", "r", "v", "i", "c", "e", " ", "R", "e", "q", "u", "e", "s", "t">>
Incident == <<"I", "n", "c", "i", "d", "e", "n", "t">>
Zzzzz == <<"Z", "z", "z", "z", "z">>
ExampleHR == <<"H", "R">>
\* a pair of score exactly 0.6: distance 2 over length 5
BoundaryTarget == <<"a", "a", "a", "b", "b">>
BoundaryOption == <<"A", "A", "a", "a", "a">>

Targets == Strings \cup {ExampleTarget, ServisRequst, Zzzzz, BoundaryTarget}
OptionInputs ==
    OptionLists \cup {ExampleOptions, <<ServiceRequest, Incident>>,
                      <<ExampleIT, ExampleHR>>, <<BoundaryOption>>}
\* the names listReferenceValues collects: only truthy ones (lines 95-113)
NameLists ==
    UNION {[1..n -> {str \in Strings : Truthy(str)}] : n \in 0..MaxNames}
        \cup {ExampleOptions}

NoCall == [called |-> FALSE, result |-> NoMatch]

\* findSimilarMatch(target, opts) called on its own
FindSimilar ==
    /\ ldc.pc = "idle"
    /\ ~suggestion.called
    /\ \E opts \in OptionInputs :
          /\ options' = opts
          /\ suggestion' = [called |-> TRUE,
                            result |-> findSimilarMatch(target, opts)]
    /\ UNCHANGED <<target, ldc>>

-----------------------------------------------------------------------------
(* tools/datacard.ts: listDataCards and its catch block *)

\* args.filter: absent, without a clause $attr$ = 'literal', or with one
Filters == {"none", "other", "clause"}
\* the answer of the list query
Statuses == {"200", "400", "500"}
\* what the template says about the attribute of the clause, or the failure
\* of the template request
AttrKinds == {"reference", "string", "missing", "error"}

\* how the request of listReferenceValues for the names ended
FetchOutcomes == {"ok", "error"}

IdleList == [pc |-> "idle", filter |-> "none", text |-> <<>>,
             status |-> "none", attr |-> "none", fetch |-> "none", composed |-> FALSE,
             raised |-> "none"]

\* isBadRequestError(error): part_005 lines 215-220
isBadRequestError(status) == status = "400"

\* the characters \s, ['"] and $ of the pattern of line 20
Whitespace == {" "}
Quotes == {"'", "\""}
Dollar == {"$"}

\* the first position from i on whose character is not in `set` (a greedy
\* set*), and the first whose character is in `set` (a greedy [^set]*)
RECURSIVE SkipWhile(_, _, _)
SkipWhile(text, i, set) ==
    IF i <= Len(text) /\ text[i] \in set THEN SkipWhile(text, i + 1, set) ELSE i
RECURSIVE SkipUntil(_, _, _)
SkipUntil(text, i, set) ==
    IF i <= Len(text) /\ text[i] \notin set THEN SkipUntil(text, i + 1, set) ELSE i

NoClause == [found |-> FALSE, attribute |-> <<>>, value |-> <<>>]

\* the pattern /\$([^$]+)\$\s*=\s*['"]([^'"]+)['"]/ matched at position i of
\* the filter: line 20.  Each repetition is followed by a character outside
\* its class, so the greedy match is the only one.
MatchAt(filter, i) ==
    LET j == SkipUntil(filter, i + 1, Dollar)
        k == SkipWhile(filter, j + 1, Whitespace)
        l == SkipWhile(filter, k + 1, Whitespace)
        m == SkipUntil(filter, l + 1, Quotes)
    IN  IF /\ filter[i] \in Dollar
           /\ j > i + 1 /\ j <= Len(filter)
           /\ k <= Len(filter) /\ filter[k] = "="
           /\ l <= Len(filter) /\ filter[l] \in Quotes
           /\ m > l + 1 /\ m <= Len(filter)
        THEN [found |-> TRUE, attribute |-> SubSeq(filter, i + 1, j - 1),
              value |-> SubSeq(filter, l + 1, m - 1)]
        ELSE NoClause

\* extractReferenceAttributeFromFilter(filter): lines 18-28.  String.match
\* with a pattern that is not global returns the leftmost match.
extractReferenceAttributeFromFilter(filter) ==
    LET starts == {i \in 1..Len(filter) : MatchAt(filter, i).found} IN
    IF starts = {} THEN NoClause
    ELSE MatchAt(filter, CHOOSE i \in starts : \A j \in starts : i <= j)

\* the filters of the model, for a literal: none, a condition that is no
\* clause, one clause, two clauses joined by AND, a clause after a condition
FilterShapes == {"none", "plain", "single", "double", "late"}
PlainCondition == <<"s", " ", ">", " ", "1">>
And == <<" ", "A", "N", "D", " ">>
ClauseOf(attr, lit) == <<"$">> \o attr \o <<"$", " ", "=", " ", "'">> \o lit \o <<"'">>
FilterText(shape, lit) ==
    CASE shape = "none" -> <<>>
      [] shape = "plain" -> PlainCondition
      [] shape = "single" -> ClauseOf(<<"g">>, lit)
      [] shape = "double" -> ClauseOf(<<"g">>, lit) \o And \o ClauseOf(<<"h">>, <<"b">>)
      [] shape = "late" -> PlainCondition \o And \o ClauseOf(<<"g">>, lit)

\* what the catch block sees of args.filter: lines 440-443
FilterKind(filter) ==
    IF ~Truthy(filter) THEN "none"
    ELSE IF extractReferenceAttributeFromFilter(filter).found THEN "clause"
    ELSE "other"

\* getReferenceTemplateCode(attribute, templateCode) returns a template
\* code: part_005 lines 34-64 (null for every other kind and on failure)
getReferenceTemplateCode(kind) == kind = "reference"

\* listReferenceValues(referenceTemplateCode): part_005 lines 70-123; the
\* names collected, or none when the request failed (lines 119-122)
listReferenceValues(outcome, collected) ==
    IF outcome = "error" THEN <<>> ELSE collected

\* the inner try block throws the composed message: lines 454-481
ComposedThrown(names) == Len(names) > 0

\* what the catch (refError) block rethrows: nothing, lines 483-486
RefErrorRethrown(thrown) == FALSE

\* mutant: the failure of the fetch of the names is raised
RaisedAfterValues_Lookup(names) ==
    IF Len(names) = 0 THEN "lookup" ELSE "generic"

\* the error listDataCards raises once the names are known: lines 454-493
RaisedAfterValues(names) ==
    IF ComposedThrown(names) /\ RefErrorRethrown(ComposedThrown(names))
    THEN "composed"
    ELSE "generic"

\* listDataCards(args) is called and sends the list query: lines 409-426
ListDataCards(shape) ==
    /\ ldc.pc = "idle"
    /\ ~suggestion.called
    /\ LET filter == FilterText(shape, target) IN
       ldc' = [IdleList EXCEPT !.pc = "request", !.text = filter,
                               !.filter = FilterKind(filter)]
    /\ UNCHANGED <<target, options, suggestion>>

\* the list query is answered: lines 428-445; filterInfo.value is the
\* literal the diagnosis is about (line 441)
ListResponse(st) ==
    /\ ldc.pc = "request"
    /\ LET filterInfo == extractReferenceAttributeFromFilter(ldc.text)
           diagnosed == /\ isBadRequestError(st)
                        /\ Truthy(ldc.text)
                        /\ filterInfo.found
       IN  /\ ldc' = IF st = "200"
                     THEN [ldc EXCEPT !.pc = "done", !.status = st]
                     ELSE IF diagnosed
                          THEN [ldc EXCEPT !.pc = "template", !.status = st]
                          ELSE [ldc EXCEPT !.pc = "done", !.status = st,
                                           !.raised = "generic"]
           /\ target' = IF diagnosed THEN filterInfo.value ELSE target
    /\ UNCHANGED <<options, suggestion>>

\* getReferenceTemplateCode() has settled: lines 446-452
RefTemplate(kind) ==
    /\ ldc.pc = "template"
    /\ ldc' = IF getReferenceTemplateCode(kind)
              THEN [ldc EXCEPT !.pc = "values", !.attr = kind]
              ELSE [ldc EXCEPT !.pc = "done", !.attr = kind,
                               !.raised = "generic"]
    /\ UNCHANGED <<target, options, suggestion>>

\* listReferenceValues() has settled with the names (none when the fetch
\* failed): lines 454-493
RefValues ==
    /\ ldc.pc = "values"
    /\ \E outcome \in FetchOutcomes, collected \in NameLists :
          LET names == listReferenceValues(outcome, collected) IN
          /\ outcome = "error" => collected = <<>>
          /\ options' = names
          /\ suggestion' = IF Len(names) > 0
                           THEN [called |-> TRUE,
                                 result |-> findSimilarMatch(target, names)]
                           ELSE suggestion
          /\ ldc' = [ldc EXCEPT !.pc = "done", !.fetch = outcome,
                                !.composed = ComposedThrown(names),
                                !.raised = RaisedAfterValues(names)]
    /\ UNCHANGED target

InitDiagVars ==
    /\ target = <<>>
    /\ options = <<>>
    /\ suggestion = NoCall
    /\ ldc = IdleList

-----------------------------------------------------------------------------
(* utils/reference-helpers: listReferenceValues and referenceValuesCache.   *)
(* The names of one referenced template are a list of strings.             *)

\* the referenced template codes and the limits listReferenceValues is
\* called with, and the lists of names a fetch collects
RefTypes == {<<"g">>, <<"g", ":", "1">>}
RefLimits == {1, 200, 201}
RefNames == {<<>>, <<ExampleIT>>}
RefCallers == 1..NumRefCallers

DigitChars == <<"0", "1", "2", "3", "4", "5", "6", "7", "8", "9">>

\* the decimal text of a number, as a template literal inserts it
RECURSIVE NumberToString(_)
NumberToString(n) ==
    IF n < 10 THEN <<DigitChars[n + 1]>>
    ELSE NumberToString(n \div 10) \o <<DigitChars[(n % 10) + 1]>>

\* cacheKey = `${referenceTemplateCode}:${limit}`: line 71
cacheKey(type, limit) == type \o <<":">> \o NumberToString(limit)

Min(a, b) == IF a <= b THEN a ELSE b

\* params.limit of the request: Math.min(limit, 200), line 88
RequestedLimit(limit) == Min(limit, RefLimitCap)

\* mutant: a cached empty list counts as a miss
IsCachedHit_NonEmpty(present, names) == present /\ Len(names) > 0

\* `if (cached)` of line 75: get() returned an array (any array, the empty
\* one included, is truthy) and not null
IsCachedHit(present, names) == present

IdleRefCall == [pc |-> "idle", type |-> <<>>, limit |-> 0, requested |-> 0]
NoStore == [set |-> FALSE, at |-> 0, names |-> <<>>]
NoRefCall == [op |-> "none", type |-> <<>>, limit |-> 0, at |-> 0,
              result |-> <<>>, sent |-> FALSE, same |-> TRUE]

NoRefs == [cache |-> EmptyCache,
           calls |-> [c \in RefCallers |-> IdleRefCall],
           requests |-> 0,
           stored |-> [k \in RefTypes \X RefLimits |-> NoStore],
           last |-> NoRefCall]

InitRefsVars == refs = NoRefs

\* listReferenceValues(type, limit) is called and runs to its cache hit or
\* to the await of the request: lines 70-90
RefCall(c, type, limit) ==
    /\ refs.calls[c].pc = "idle"
    /\ LET key == cacheKey(type, limit)
           present == key \in DOMAIN refs.cache /\ ~IsExpired(refs.cache[key], now)
           cached == IF present THEN refs.cache[key].value ELSE <<>>
           after == CacheAfterGet(refs.cache, key, now)
       IN  IF IsCachedHit(present, cached)
           THEN refs' = [refs EXCEPT
                    !.cache = after,
                    !.last = [op |-> "hit", type |-> type, limit |-> limit,
                              at |-> now, result |-> cached, sent |-> FALSE,
                              same |-> after = refs.cache]]
           ELSE /\ refs.requests < MaxRequests
                /\ refs' = [refs EXCEPT
                       !.cache = after,
                       !.calls[c] = [pc |-> "fetching", type |-> type,
                                     limit |-> limit,
                                     requested |-> RequestedLimit(limit)],
                       !.requests = @ + 1,
                       !.last = [op |-> "miss", type |-> type, limit |-> limit,
                                 at |-> now, result |-> <<>>, sent |-> TRUE,
                                 same |-> after = refs.cache]]

\* the request of call c is answered and the names are collected, stored
\* and returned: lines 94-118
RefFetched(c, names) ==
    /\ refs.calls[c].pc = "fetching"
    /\ LET type == refs.calls[c].type
           limit == refs.calls[c].limit
           after == CacheSet(refs.cache, cacheKey(type, limit), names,
                             RefValuesTTL, now)
       IN  refs' = [refs EXCEPT
               !.cache = after,
               !.calls[c] = IdleRefCall,
               !.stored[<<type, limit>>] = [set |-> TRUE, at |-> now, names |-> names],
               !.last = [op |-> "stored", type |-> type, limit |-> limit,
                         at |-> now, result |-> names, sent |-> FALSE,
                         same |-> after = refs.cache]]

\* the request of call c fails, or the answer has no data: the catch block
\* returns no names, lines 119-122
RefFailed(c) ==
    /\ refs.calls[c].pc = "fetching"
    /\ refs' = [refs EXCEPT
           !.calls[c] = IdleRefCall,
           !.last = [op |-> "failed", type |-> refs.calls[c].type,
                     limit |-> refs.calls[c].limit, at |-> now,
                     result |-> listReferenceValues("error", <<>>),
                     sent |-> FALSE, same |-> TRUE]]

\* the cleanup timer runs cleanExpired() on the instance: cache.ts 63-77, 97-104
RefCleanExpired ==
    /\ refs' = [refs EXCEPT !.cache = CacheCleanExpired(refs.cache, now)]

-----------------------------------------------------------------------------
(* utils/validation.ts and the operations of tools/datacard.ts that take   *)
(* template codes.                                                         *)

\* the characters of the template codes of the model
CodeAlphabet == {"a", "Z", "0", "_", "-", " ", "$"}
TemplateCodes == UNION {[1..n -> CodeAlphabet] : n \in 0..MaxCodeLen}
\* the operations with one template code, and the multi-template search
SingleOps == {"list", "get", "create", "update", "delete", "getAttribute",
              "updateAttribute", "addAttributeValue", "deleteAttributeValue",
              "stream", "search"}
CodeLists == UNION {[1..n -> TemplateCodes] : n \in 1..MaxCodes}

\* String.prototype.trim
RECURSIVE TrimStart(_)
TrimStart(str) ==
    IF Len(str) > 0 /\ Head(str) \in Whitespace THEN TrimStart(Tail(str)) ELSE str
RECURSIVE TrimEnd(_)
TrimEnd(str) ==
    IF Len(str) > 0 /\ str[Len(str)] \in Whitespace
    THEN TrimEnd(SubSeq(str, 1, Len(str) - 1))
    ELSE str
trim(str) == TrimEnd(TrimStart(str))

\* validateNonEmpty(value, fieldName) returns without throwing: lines 12-16
validateNonEmpty(value) == Truthy(value) /\ Len(trim(value)) # 0

\* the class [a-zA-Z0-9_-] of line 25
InRange(ch, chars) == \E i \in 1..Len(chars) : chars[i] = ch
CodeChar(ch) ==
    \/ InRange(ch, LowerCase)
    \/ InRange(ch, UpperCase)
    \/ InRange(ch, DigitChars)
    \/ ch \in {"_", "-"}

\* validateTemplateCode(templateCode) returns without throwing: lines 23-28
validateTemplateCode(templateCode) ==
    /\ validateNonEmpty(templateCode)
    /\ Len(templateCode) >= 1
    /\ \A i \in 1..Len(templateCode) : CodeChar(templateCode[i])

\* mutant: each code is validated when its own request is built
CodesValidated_FirstOnly(codes) == validateTemplateCode(codes[1])

\* the validation at the head of an operation passes: one call for an
\* operation with one code (line 411 and its likes), forEach over all the
\* codes for the multi-template search (line 698)
CodesValidated(codes) ==
    \A i \in 1..Len(codes) : validateTemplateCode(codes[i])

IdleOp == [pc |-> "idle", kind |-> "none", codes |-> <<>>, sent |-> {},
           answered |-> {}, tokens |-> 0, runs |-> 0, raised |-> "none"]

InitOpsVars == InitRefsVars /\ dcop = IdleOp

\* a data-card operation is called and runs to its first await or to the
\* error it throws: the validation, then one request per template code
\* (each through the request interceptor, which calls getToken())
DataCardOp(kind, codes) ==
    /\ dcop.pc = "idle"
    /\ kind \in SingleOps => Len(codes) = 1
    /\ dcop' = IF CodesValidated(codes)
               THEN [IdleOp EXCEPT !.pc = "await", !.kind = kind,
                                   !.codes = codes,
                                   !.sent = IF kind = "multi"
                                            THEN 1..Len(codes) ELSE {1},
                                   !.tokens = IF kind = "multi"
                                              THEN Len(codes) ELSE 1,
                                   !.runs = 1]
               ELSE [IdleOp EXCEPT !.pc = "done", !.kind = kind,
                                   !.codes = codes, !.runs = 1,
                                   !.raised = "validation"]

\* request i of the operation is answered; the operation ends when its
\* last request is: searchMultipleTemplates collects every outcome (lines
\* 708-736), an operation with one code raises a failure
OpResponse(i, ok) ==
    /\ dcop.pc = "await"
    /\ i \in dcop.sent \ dcop.answered
    /\ LET answered == dcop.answered \cup {i} IN
       dcop' = [dcop EXCEPT
                   !.answered = answered,
                   !.pc = IF answered = dcop.sent THEN "done" ELSE "await",
                   !.raised = IF ~ok /\ dcop.kind # "multi"
                              THEN "request" ELSE dcop.raised]

-----------------------------------------------------------------------------
(* http-proxy.js: the stdio-to-HTTP bridge.  The HTTP server is its        *)
(* environment: a response carries the session id of the request, a new    *)
(* id for an initialization without one, or none.                          *)

Messages == 1..MaxMessages

NoForward == [op |-> "none", header |-> NoSid, held |-> NoSid, idle |-> 0,
              init |-> FALSE, answer |-> NoSid]

NoBridge == [sessionId |-> NoSid, lastActivity |-> 0, pending |-> {},
             sent |-> 0, issued |-> 0, last |-> NoForward]

InitToolVars == InitOpsVars /\ bridge = NoBridge

\* the header Mcp-Session-Id of a forwarded message: lines 45-48
SessionHeader(held) == held

\* sessionId after a response with the header value rsid: lines 57-61
AdoptedId(held, rsid) == IF rsid # NoSid /\ held = NoSid THEN rsid ELSE held

\* checkSessionTimeout() clears the id: line 90
SessionExpired(held, last, t) == held # NoSid /\ t - last > ProxySessionTimeout

\* forwardToHttp(message) up to `await axios.post`: lines 39-54
Forward(isInit) ==
    /\ bridge.sent < MaxMessages
    /\ bridge' = [bridge EXCEPT
           !.sent = @ + 1,
           !.pending = @ \cup {[n |-> bridge.sent + 1,
                                header |-> SessionHeader(bridge.sessionId),
                                init |-> isInit]},
           !.last = [op |-> "forward",
                     header |-> SessionHeader(bridge.sessionId),
                     held |-> bridge.sessionId,
                     idle |-> now - bridge.lastActivity,
                     init |-> isInit, answer |-> NoSid]]

\* the session ids a response to message m can carry
ResponseIds(m) ==
    IF m.header # NoSid THEN {NoSid, m.header}
    ELSE IF m.init /\ bridge.issued < MaxMessages
         THEN {NoSid, bridge.issued + 1}
         ELSE {NoSid}

\* the response to message m arrives: lines 56-69
Respond(m, rsid) ==
    /\ m \in bridge.pending
    /\ rsid \in ResponseIds(m)
    /\ LET id == AdoptedId(bridge.sessionId, rsid) IN
       bridge' = [bridge EXCEPT
           !.pending = @ \ {m},
           !.issued = IF rsid > @ THEN rsid ELSE @,
           !.sessionId = id,
           !.lastActivity = IF id # NoSid THEN now ELSE @,
           !.last = [op |-> "response", header |-> m.header,
                     held |-> bridge.sessionId, idle |-> now - bridge.lastActivity,
                     init |-> m.init, answer |-> rsid]]

\* axios.post fails (no connection, 30 s timeout): lines 70-83
ForwardFails(m) ==
    /\ m \in bridge.pending
    /\ bridge' = [bridge EXCEPT
           !.pending = @ \ {m},
           !.last = [op |-> "error", header |-> m.header,
                     held |-> bridge.sessionId, idle |-> now - bridge.lastActivity,
                     init |-> m.init, answer |-> NoSid]]

\* the interval timer of line 185 fires: checkSessionTimeout(), lines 89-95
CheckSessionTimeout ==
    /\ bridge' = [bridge EXCEPT
           !.sessionId = IF SessionExpired(bridge.sessionId, bridge.lastActivity, now)
                         THEN NoSid ELSE @,
           !.last = [op |-> "check", header |-> NoSid, held |-> bridge.sessionId,
                     idle |-> now - bridge.lastActivity, init |-> FALSE,
                     answer |-> NoSid]]

-----------------------------------------------------------------------------
(* Actions of the credential manager and of its callers *)

\* api/client.ts request interceptor: a call to a protected endpoint starts
ApiRequest(p) ==
    /\ UNCHANGED <<cacheVars, httpVars, diagVars, toolVars>>
    /\ proc[p].pc = "idle"
    /\ GetTokenStep(p, tokenCache, tokenExpiresAt, authPromise, attempts,
                    cachedStale, FALSE, freshPending, NumCompleted = 0 /\ ~cleared)
    /\ UNCHANGED <<cleared, sinceClear>>
    /\ UNCHANGED now

\* api/client.ts response interceptor, 401 branch: lines 96-106
ApiResponse401(p) ==
    /\ UNCHANGED <<cacheVars, httpVars, diagVars, toolVars>>
    /\ proc[p].pc = "sent"
    /\ cleared' = TRUE
    /\ LET s == ClearTokenState(tokenCache, tokenExpiresAt, authPromise) IN
       IF ~proc[p].retry
       THEN GetTokenStep(p, s.cache, s.exp, s.promise, MarkStale(attempts),
                         FALSE, XRetry(proc[p].retry), TRUE, FALSE)
       ELSE /\ tokenCache' = s.cache
            /\ tokenExpiresAt' = s.exp
            /\ authPromise' = s.promise
            /\ proc' = [proc EXCEPT ![p] = IdleProc]
            /\ attempts' = MarkStale(attempts)
            /\ cachedStale' = FALSE
            /\ freshPending' = TRUE
            /\ lastDone' = NoDone
            /\ UNCHANGED lastGet
    /\ sinceClear' = TRUE
    /\ UNCHANGED now

\* api/client.ts response interceptor: success, or a failure other than 401
ApiResponseOther(p) ==
    /\ UNCHANGED <<cacheVars, httpVars, diagVars, toolVars>>
    /\ proc[p].pc = "sent"
    /\ proc' = [proc EXCEPT ![p] = IdleProc]
    /\ lastDone' = NoDone
    /\ UNCHANGED <<now, tokenCache, tokenExpiresAt, authPromise, attempts,
                   cachedStale, cleared, freshPending, lastGet, sinceClear>>

\* tools/auth.ts logout: clearToken()
Logout ==
    /\ UNCHANGED <<cacheVars, httpVars, diagVars, toolVars>>
    /\ LET s == ClearTokenState(tokenCache, tokenExpiresAt, authPromise) IN
       /\ tokenCache' = s.cache
       /\ tokenExpiresAt' = s.exp
       /\ authPromise' = s.promise
    /\ attempts' = MarkStale(attempts)
    /\ cachedStale' = FALSE
    /\ cleared' = TRUE
    /\ freshPending' = TRUE
    /\ sinceClear' = TRUE
    /\ lastDone' = NoDone
    /\ UNCHANGED <<now, proc, lastGet>>

\* tools/auth.ts login: authenticate() called directly, up to its await
Login ==
    /\ UNCHANGED <<cacheVars, httpVars, diagVars, toolVars>>
    /\ Len(attempts) < MaxAttempts
    /\ attempts' = Append(attempts, NewAttempt("login"))
    /\ lastDone' = NoDone
    /\ UNCHANGED <<now, tokenCache, tokenExpiresAt, authPromise, proc,
                   cachedStale, cleared, freshPending, lastGet, sinceClear>>

\* tools/auth.ts checkAuth: isAuthenticated(), whose cache read drops an
\* expired token entry
CheckAuth ==
    /\ UNCHANGED <<cacheVars, httpVars, diagVars, toolVars>>
    /\ tokenCache' = CacheAfterGet(tokenCache, TokenKey, now)
    /\ cachedStale' = (cachedStale /\ TokenKey \in DOMAIN tokenCache')
    /\ lastDone' = NoDone
    /\ UNCHANGED <<now, tokenExpiresAt, authPromise, attempts, proc, cleared,
                   freshPending, lastGet, sinceClear>>

\* the login endpoint answers attempt a: the rest of authenticate() (lines
\* 58-85), the .finally() handler, and the callers awaiting the promise
AuthComplete(a, out) ==
    /\ UNCHANGED <<cacheVars, httpVars, diagVars, toolVars>>
    /\ a \in Outstanding
    /\ LET s == StoreToken(tokenCache, tokenExpiresAt, a, out, now) IN
       /\ tokenCache' = s.cache
       /\ tokenExpiresAt' = s.exp
    /\ authPromise' = IF attempts[a].by = "getToken"
                      THEN FinallyPromise(authPromise, a)
                      ELSE authPromise
    /\ attempts' = [attempts EXCEPT ![a] = DoneAttempt]
    /\ cachedStale' = IF out = "ok" THEN attempts[a].stale ELSE cachedStale
    /\ proc' = [p \in Procs |->
                  IF proc[p].pc = "wait" /\ proc[p].att = a
                  THEN Resume(proc[p], a, out)
                  ELSE proc[p]]
    /\ sinceClear' = (sinceClear /\ out # "ok")
    /\ lastDone' = LET ws == {p \in Procs : proc[p].pc = "wait" /\ proc[p].att = a}
                   IN  [att |-> a, by |-> attempts[a].by, out |-> out,
                        err |-> AuthError(out), waiters |-> ws,
                        errs |-> {AuthError(out) : p \in ws},
                        promise |-> authPromise']
    /\ UNCHANGED <<now, cleared, freshPending, lastGet>>

\* the clock advances (no handler runs)
TickHttp ==
    /\ justSwept' = FALSE
    /\ lastResp' = NoResp
    /\ UNCHANGED originVars
    /\ UNCHANGED <<transports, conns, nextSid, closes, delWait, timer, phase,
                   removal, swept>>

Tick ==
    /\ now < MaxTime
    /\ now' = now + 1
    /\ TickHttp
    /\ lastDone' = NoDone
    /\ UNCHANGED <<tokenCache, tokenExpiresAt, authPromise, attempts, proc,
                   cachedStale, cleared, freshPending, lastGet, sinceClear,
                   cacheVars, diagVars, toolVars>>

InitAuth ==
    /\ now = 0
    /\ tokenCache = EmptyCache
    /\ tokenExpiresAt = 0
    /\ authPromise = NoPromise
    /\ attempts = <<>>
    /\ proc = [p \in Procs |-> IdleProc]
    /\ cachedStale = FALSE
    /\ cleared = FALSE
    /\ freshPending = FALSE
    /\ lastGet = NoGet
    /\ sinceClear = FALSE
    /\ lastDone = NoDone
    /\ cache = EmptyCache
    /\ written = [k \in Keys |-> NoWrite]
    /\ lastRead = NoRead
    /\ cleanup = NoCleanup
    /\ InitHttpVars
    /\ allowedOrigins = NoAllowList
    /\ InitDiagVars
    /\ InitToolVars

NextAuth ==
    \/ \E p \in Procs : ApiRequest(p)
    \/ \E p \in Procs : ApiResponse401(p)
    \/ \E p \in Procs : ApiResponseOther(p)
    \/ Logout
    \/ Login
    \/ CheckAuth
    \/ \E a \in 1..MaxAttempts, out \in Outcomes : AuthComplete(a, out)
    \/ Tick

SpecAuth == InitAuth /\ [][NextAuth]_vars

\* The cache instance alone: its methods called in any order at any time.
InitCache == InitAuth

NextCache ==
    \/ \E k \in Keys, v \in Values, ttlMs \in Ttls : CSet(k, v, ttlMs) /\ UNCHANGED <<authVars, httpVars, diagVars, toolVars>>
    \/ \E k \in Keys : CGet(k) /\ UNCHANGED <<authVars, httpVars, diagVars, toolVars>>
    \/ \E k \in Keys : CDelete(k) /\ UNCHANGED <<authVars, httpVars, diagVars, toolVars>>
    \/ CClear /\ UNCHANGED <<authVars, httpVars, diagVars, toolVars>>
    \/ CCleanExpired /\ UNCHANGED <<authVars, httpVars, diagVars, toolVars>>
    \/ StartCacheCleanup /\ UNCHANGED <<authVars, httpVars, diagVars, toolVars>>
    \/ StopCacheCleanup /\ UNCHANGED <<authVars, httpVars, diagVars, toolVars>>
    \/ \E t \in 1..MaxTimers :
          /\ CleanupTimerFires(t)
          /\ UNCHANGED <<tokenExpiresAt, authPromise, attempts, proc, cleared,
                         freshPending, lastGet, sinceClear, lastDone,
                         httpVars, diagVars, toolVars>>
    \/ Tick

SpecCache == InitCache /\ [][NextCache]_vars

\* The HTTP server: requests, the idle sweep and shutdown in any order.
InitHttp == InitAuth

ReqSids == 0..MaxConns

\* the interval timer of startSessionCleanup() fires: lines 447-452
SweepTimerFires == Sweep /\ UNCHANGED <<authVars, cacheVars, diagVars, toolVars, originVars>>

NextHttp ==
    \/ \E sid \in ReqSids, isInit \in BOOLEAN : Post(sid, isInit) /\ UNCHANGED <<authVars, cacheVars, diagVars, toolVars, originVars>>
    \/ \E c \in Conns, threw \in BOOLEAN : InitConnected(c, threw) /\ UNCHANGED <<authVars, cacheVars, diagVars, toolVars, originVars>>
    \/ \E c \in Conns : InitCallback(c) /\ UNCHANGED <<authVars, cacheVars, diagVars, toolVars, originVars>>
    \/ \E c \in Conns, threw \in BOOLEAN : InitFinish(c, threw) /\ UNCHANGED <<authVars, cacheVars, diagVars, toolVars, originVars>>
    \/ \E sid \in ReqSids : Get(sid) /\ UNCHANGED <<authVars, cacheVars, diagVars, toolVars, originVars>>
    \/ \E sid \in ReqSids, sync \in BOOLEAN : DeleteStart(sid, sync) /\ UNCHANGED <<authVars, cacheVars, diagVars, toolVars, originVars>>
    \/ \E sid \in Sids, ok \in BOOLEAN : DeleteFinish(sid, ok) /\ UNCHANGED <<authVars, cacheVars, diagVars, toolVars, originVars>>
    \/ \E c \in Conns : OnClose(c) /\ UNCHANGED <<authVars, cacheVars, diagVars, toolVars, originVars>>
    \/ SweepTimerFires
    \/ \E c \in Conns, ok \in BOOLEAN : SweepCloseSettle(c, ok) /\ UNCHANGED <<authVars, cacheVars, diagVars, toolVars, originVars>>
    \/ StopStart /\ UNCHANGED <<authVars, cacheVars, diagVars, toolVars, originVars>>
    \/ \E c \in Conns, ok \in BOOLEAN : StopCloseSettle(c, ok) /\ UNCHANGED <<authVars, cacheVars, diagVars, toolVars, originVars>>
    \/ StopFinish /\ UNCHANGED <<authVars, cacheVars, diagVars, toolVars, originVars>>
    \/ Tick

SpecHttp == InitHttp /\ [][NextHttp]_vars

\* The HTTP server with time passing and the sweep timer firing: setInterval
\* (line 449) fires the sweep again and again until stop() clears it.
SpecHttpLive ==
    /\ InitHttp
    /\ [][NextHttp]_vars
    /\ WF_vars(Tick)
    /\ WF_vars(SweepTimerFires)

\* The HTTP server behind the origin validation middleware, with each of
\* the allow-list configurations: requests and their completions at one
\* clock value.
InitOrigin ==
    /\ now = 0
    /\ tokenCache = EmptyCache
    /\ tokenExpiresAt = 0
    /\ authPromise = NoPromise
    /\ attempts = <<>>
    /\ proc = [p \in Procs |-> IdleProc]
    /\ cachedStale = FALSE
    /\ cleared = FALSE
    /\ freshPending = FALSE
    /\ lastGet = NoGet
    /\ sinceClear = FALSE
    /\ lastDone = NoDone
    /\ cache = EmptyCache
    /\ written = [k \in Keys |-> NoWrite]
    /\ lastRead = NoRead
    /\ cleanup = NoCleanup
    /\ InitHttpVars
    /\ allowedOrigins \in AllowLists
    /\ InitDiagVars
    /\ InitToolVars

\* a request with the headers (o, r) passes the middleware
Passes(o, r) ==
    /\ OriginCheck(allowedOrigins, RequestOrigin(o, r)) = "next"
    /\ lastOrigin' = RequestOrigin(o, r)
    /\ UNCHANGED <<allowedOrigins, authVars, cacheVars, diagVars, toolVars>>

\* a request with the headers (o, r) is rejected by the middleware
Rejected(o, r) ==
    /\ OriginCheck(allowedOrigins, RequestOrigin(o, r)) = "403"
    /\ lastOrigin' = RequestOrigin(o, r)
    /\ UNCHANGED <<allowedOrigins, authVars, cacheVars, diagVars, toolVars>>

\* a step that is no request: a completion or a callback
Internal ==
    /\ lastOrigin' = NoHeader
    /\ UNCHANGED <<allowedOrigins, authVars, cacheVars, diagVars, toolVars>>

NextOrigin ==
    \/ \E h \in HeaderPairs, sid \in ReqSids, isInit \in BOOLEAN : Passes(h[1], h[2]) /\ Post(sid, isInit)
    \/ \E h \in HeaderPairs, sid \in ReqSids : Passes(h[1], h[2]) /\ Get(sid)
    \/ \E h \in HeaderPairs, sid \in ReqSids, sync \in BOOLEAN : Passes(h[1], h[2]) /\ DeleteStart(sid, sync)
    \/ \E h \in HeaderPairs, sid \in ReqSids, isInit \in BOOLEAN : Rejected(h[1], h[2]) /\ Forbidden("POST", sid, isInit)
    \/ \E h \in HeaderPairs, sid \in ReqSids : Rejected(h[1], h[2]) /\ Forbidden("GET", sid, FALSE)
    \/ \E h \in HeaderPairs, sid \in ReqSids : Rejected(h[1], h[2]) /\ Forbidden("DELETE", sid, FALSE)
    \/ \E c \in Conns, threw \in BOOLEAN : InitConnected(c, threw) /\ Internal
    \/ \E c \in Conns : InitCallback(c) /\ Internal
    \/ \E c \in Conns, threw \in BOOLEAN : InitFinish(c, threw) /\ Internal
    \/ \E sid \in Sids, ok \in BOOLEAN : DeleteFinish(sid, ok) /\ Internal
    \/ \E c \in Conns : OnClose(c) /\ Internal

SpecOrigin == InitOrigin /\ [][NextOrigin]_vars

\* The reference diagnostics: findSimilarMatch and listDataCards on every
\* literal and every list of names of the bounded sets.
InitDiag ==
    /\ now = 0
    /\ tokenCache = EmptyCache
    /\ tokenExpiresAt = 0
    /\ authPromise = NoPromise
    /\ attempts = <<>>
    /\ proc = [p \in Procs |-> IdleProc]
    /\ cachedStale = FALSE
    /\ cleared = FALSE
    /\ freshPending = FALSE
    /\ lastGet = NoGet
    /\ sinceClear = FALSE
    /\ lastDone = NoDone
    /\ cache = EmptyCache
    /\ written = [k \in Keys |-> NoWrite]
    /\ lastRead = NoRead
    /\ cleanup = NoCleanup
    /\ InitHttpVars
    /\ allowedOrigins = NoAllowList
    /\ target \in Targets
    /\ options = <<>>
    /\ suggestion = NoCall
    /\ ldc = IdleList
    /\ InitToolVars

NextDiag ==
    \/ FindSimilar /\ UNCHANGED <<now, authVars, cacheVars, httpVars, toolVars>>
    \/ \E shape \in FilterShapes : ListDataCards(shape) /\ UNCHANGED <<now, authVars, cacheVars, httpVars, toolVars>>
    \/ \E st \in Statuses : ListResponse(st) /\ UNCHANGED <<now, authVars, cacheVars, httpVars, toolVars>>
    \/ \E kind \in AttrKinds : RefTemplate(kind) /\ UNCHANGED <<now, authVars, cacheVars, httpVars, toolVars>>
    \/ RefValues /\ UNCHANGED <<now, authVars, cacheVars, httpVars, toolVars>>

SpecDiag == InitDiag /\ [][NextDiag]_vars

\* The cache of reference names: calls of listReferenceValues with every
\* type and limit, their requests answered or failing, the cleanup timer
\* and the clock.
InitRefs == InitAuth

NextRefs ==
    \/ \E c \in RefCallers, type \in RefTypes, limit \in RefLimits : RefCall(c, type, limit) /\ UNCHANGED <<now, authVars, cacheVars, httpVars, diagVars, dcop, bridge>>
    \/ \E c \in RefCallers, names \in RefNames : RefFetched(c, names) /\ UNCHANGED <<now, authVars, cacheVars, httpVars, diagVars, dcop, bridge>>
    \/ \E c \in RefCallers : RefFailed(c) /\ UNCHANGED <<now, authVars, cacheVars, httpVars, diagVars, dcop, bridge>>
    \/ RefCleanExpired /\ UNCHANGED <<now, authVars, cacheVars, httpVars, diagVars, dcop, bridge>>
    \/ Tick

SpecRefs == InitRefs /\ [][NextRefs]_vars

\* The data-card operations on every template code and every list of
\* template codes of the bounded sets.
InitOps == InitAuth

NextOps ==
    \/ \E kind \in SingleOps \cup {"multi"}, codes \in CodeLists : DataCardOp(kind, codes) /\ UNCHANGED <<now, authVars, cacheVars, httpVars, diagVars, refs, bridge>>
    \/ \E i \in 1..MaxCodes, ok \in BOOLEAN : OpResponse(i, ok) /\ UNCHANGED <<now, authVars, cacheVars, httpVars, diagVars, refs, bridge>>

SpecOps == InitOps /\ [][NextOps]_vars

\* The bridge: messages forwarded and answered in any order, the timeout
\* check and the clock.
PendingMessages ==
    [n : Messages, header : 0..MaxMessages, init : BOOLEAN]

InitProxy == InitAuth

NextProxy ==
    \/ \E isInit \in BOOLEAN : Forward(isInit) /\ UNCHANGED <<now, authVars, cacheVars, httpVars, diagVars, refs, dcop>>
    \/ \E m \in PendingMessages, rsid \in 0..MaxMessages : Respond(m, rsid) /\ UNCHANGED <<now, authVars, cacheVars, httpVars, diagVars, refs, dcop>>
    \/ \E m \in PendingMessages : ForwardFails(m) /\ UNCHANGED <<now, authVars, cacheVars, httpVars, diagVars, refs, dcop>>
    \/ CheckSessionTimeout /\ UNCHANGED <<now, authVars, cacheVars, httpVars, diagVars, refs, dcop>>
    \/ Tick

SpecProxy == InitProxy /\ [][NextProxy]_vars

-----------------------------------------------------------------------------
(* Properties of the credential manager *)

GetTokenAttempts == {a \in 1..Len(attempts) : attempts[a].by = "getToken"}
Waiting == {p \in Procs : proc[p].pc = "wait"}

\* C1: getToken() calls that all start while no token is stored and before
\* any login request has been answered (and with no clearToken() among
\* them) cause exactly one login request, which all of them await, and
\* every one of them that receives a token receives the same token.
C1_SingleFlight ==
    /\ (NumCompleted = 0 /\ ~cleared) =>
          /\ Cardinality(GetTokenAttempts) <= 1
          /\ \A p \in Waiting : GetTokenAttempts = {proc[p].att}
    /\ \A p, q \in Procs :
          (proc[p].early /\ proc[q].early /\ proc[p].pc = "sent" /\ proc[q].pc = "sent")
             => proc[p].tok = proc[q].tok

\* C1 witness: every caller started before the first answer, one login
\* request was issued and all of them hold its token.
C1_Witness ==
    /\ Len(attempts) = 1
    /\ \A p \in Procs : proc[p].early /\ proc[p].pc = "sent" /\ proc[p].tok = 1

\* C2: in every interleaving of getToken(), clearToken(), the login tool
\* and the 401 recovery at most one login request is outstanding, and the
\* callers waiting at the same time all await that one request.
C2_AtMostOneOutstanding ==
    /\ Cardinality(Outstanding) <= 1
    /\ \A p, q \in Waiting : proc[p].att = proc[q].att

\* C3: after clearToken() has returned, the next getToken() does not return
\* a stored token of a login request that is older than that clearToken().
C3_FreshAfterClear ==
    ~(lastGet.afterClear /\ lastGet.path = "cached" /\ lastGet.stale)

-----------------------------------------------------------------------------
(* Properties of the cache *)

\* C4 as stated: after set(k, v, ttl) and no later set/delete/clear of k,
\* get(k) returns v at every time before expiresAt and misses at every time
\* from expiresAt on.
C4_ExpiryAsStated ==
    lastRead.w.set =>
        /\ (lastRead.at < lastRead.w.expiresAt => lastRead.value = lastRead.w.value)
        /\ (lastRead.at >= lastRead.w.expiresAt => lastRead.value = Null)

\* C4 amended: get(k) returns v at every time up to and including expiresAt
\* and misses at every later time, whether or not a sweep has run.
C4_Expiry ==
    lastRead.w.set =>
        /\ (lastRead.at <= lastRead.w.expiresAt => lastRead.value = lastRead.w.value)
        /\ (lastRead.at > lastRead.w.expiresAt => lastRead.value = Null)

\* C4 witness: a get() after the expiry misses although the entry was still
\* in the Map (no delete and no sweep removed it).
C4_Witness ==
    /\ lastRead.w.set
    /\ lastRead.at > lastRead.w.expiresAt
    /\ lastRead.present
    /\ lastRead.value = Null

-----------------------------------------------------------------------------
(* Properties of the HTTP session registry *)

Unrouted == {"-32000", "400", "404"}
Registered == DOMAIN transports
Idle(s) == now - transports[s].lastActivity

\* C5: once the idle sweep has removed a session from the registry, no
\* later POST, GET or DELETE lookup by its id finds it, also while the close
\* the sweep started is still pending.
C5_SweptNotRoutable ==
    /\ swept \cap Registered = {}
    /\ (lastResp.sid \in swept /\ lastResp.status # "204")
            => lastResp.status \in Unrouted

\* C5 witness: a POST carrying the id of a swept session is rejected while
\* the close of that session is still pending.
C5_Witness ==
    /\ lastResp.op = "POST"
    /\ lastResp.sid \in swept
    /\ lastResp.status = "-32000"
    /\ \E c \in closes.sweep : conns[c].sid = lastResp.sid

\* C6: on every path that closes a session (idle sweep, DELETE /mcp,
\* shutdown) the session leaves the registry before its close begins: no
\* session is in the registry while a close of its engine is pending.
C6_RemovedBeforeClose ==
    \A s \in Registered : transports[s].conn \notin Closing

\* C7 as stated: once the session-initialized callback has fired for s, a
\* POST carrying s is routed to the engine and transport created for s,
\* provided no DELETE, engine closure or sweep removal of s came in between.
C7_RoutedAsStated ==
    (/\ lastResp.op = "POST"
     /\ lastResp.sid \in Sids
     /\ lastResp.sid < nextSid
     /\ removal[lastResp.sid] \in {"none", "initerror"})
        => /\ lastResp.status = "routed"
           /\ conns[lastResp.conn].sid = lastResp.sid

\* C7 amended: ... provided no DELETE, engine closure, sweep removal or
\* cleanup after a failed initialization request of s came in between.
C7_Routed ==
    (/\ lastResp.op = "POST"
     /\ lastResp.sid \in Sids
     /\ lastResp.sid < nextSid
     /\ removal[lastResp.sid] = "none")
        => /\ lastResp.status = "routed"
           /\ conns[lastResp.conn].sid = lastResp.sid

\* C7 witness: a POST is routed to the pair that registered its session id,
\* where the pair is not the one numbered like the id.
C7_Witness ==
    /\ lastResp.op = "POST"
    /\ lastResp.status = "routed"
    /\ removal[lastResp.sid] = "none"
    /\ lastResp.conn # lastResp.sid
    /\ conns[lastResp.conn].sid = lastResp.sid

\* C8 as stated: a session that has been idle for longer than the session
\* timeout is absent from the registry.
C8_IdleAbsentAsStated ==
    \A s \in Registered : Idle(s) <= SessionTimeout

\* C8 amended: when an idle sweep has run, no session that has been idle for
\* longer than the session timeout is left in the registry.
C8_IdleAbsentAfterSweep ==
    justSwept => \A s \in Registered : Idle(s) <= SessionTimeout

\* C8 witness: a sweep has removed an idle session and kept another one.
C8_Witness ==
    /\ justSwept
    /\ swept # {}
    /\ Registered # {}

\* C9: DELETE /mcp answers 400 without a session id, 404 for an id that is
\* not registered and 204 for a registered one; after the 204 the session is
\* not registered, and with the 400 and the 404 the registry is unchanged.
C9_DeleteAnswers ==
    (lastResp.op = "DELETE" /\ lastResp.status # "closing") =>
        /\ (lastResp.sid = NoSid => lastResp.status = "400" /\ lastResp.regSame)
        /\ (lastResp.sid # NoSid /\ ~lastResp.known
                => lastResp.status = "404" /\ lastResp.regSame)
        /\ (lastResp.known
                => lastResp.status = "204" /\ lastResp.sid \notin Registered)

\* C9 witness: a DELETE of a registered session has been answered 204 while
\* another session stays registered.
C9_Witness ==
    /\ lastResp.op = "DELETE"
    /\ lastResp.status = "204"
    /\ lastResp.sid \notin Registered
    /\ Registered # {}

\* C10: a POST /mcp whose session id is missing or not registered and whose
\* body is no initialization request is answered with error -32000, reaches
\* no protocol engine and leaves the registry unchanged.
C10_PostRejected ==
    (lastResp.op = "POST" /\ ~lastResp.known /\ ~lastResp.isInit) =>
        /\ lastResp.status = "-32000"
        /\ lastResp.conn = 0
        /\ lastResp.regSame

\* C10 witness: a POST carrying an unregistered id is rejected while a
\* session is registered.
C10_Witness ==
    /\ lastResp.op = "POST"
    /\ lastResp.sid # NoSid
    /\ ~lastResp.known
    /\ ~lastResp.isInit
    /\ lastResp.status = "-32000"
    /\ Registered # {}

\* C11: a GET /mcp is handed to a transport only when its session id is
\* registered; with a missing or unregistered id it is answered 400, no
\* stream is opened and the registry is unchanged.
C11_GetNeedsSession ==
    lastResp.op = "GET" =>
        /\ (lastResp.status = "stream" =>
                /\ lastResp.known
                /\ conns[lastResp.conn].sid = lastResp.sid)
        /\ (~lastResp.known =>
                /\ lastResp.status = "400"
                /\ lastResp.conn = 0
                /\ lastResp.regSame)

\* C11 witness: a GET carrying an unregistered id is answered 400 while
\* another session is registered.
C11_Witness ==
    /\ lastResp.op = "GET"
    /\ lastResp.sid # NoSid
    /\ ~lastResp.known
    /\ lastResp.status = "400"
    /\ Registered # {}

-----------------------------------------------------------------------------
(* Properties of the reference diagnostics *)

\* C12: when a filtered list query fails with HTTP 400, the filter has a
\* clause $attr$ = 'literal', attr is a reference attribute of the template
\* and the referenced template yields at least one name, listDataCards
\* raises the composed message and not the generic error.
C12_ComposedErrorRaised ==
    (/\ ldc.pc = "done"
     /\ ldc.status = "400"
     /\ ldc.filter = "clause"
     /\ ldc.attr = "reference"
     /\ Len(options) > 0)
        => ldc.raised = "composed"

-----------------------------------------------------------------------------
(* Properties of the API client and of the credential manager, continued *)

\* the requests sent to the protected API for the present call of p
Sent(p) == proc[p].n

\* C13: a 401 on the first send of a call makes the client call
\* clearToken(), issue a fresh login request and, with its token, re-send
\* the request once; the re-sent request is marked, a 401 on it ends the call
\* with no further send, and no call sends more than two requests.
C13_RetryOnce ==
    /\ [](\A p \in Procs :
            /\ Sent(p) <= 2
            /\ (Sent(p) = 2 => proc[p].retry)
            /\ (proc[p].retry => cleared /\ Sent(p) >= 1))
    /\ [][\A p \in Procs :
            /\ (proc[p].pc = "sent" /\ ~proc[p].retry /\ proc'[p].retry) =>
                  /\ proc'[p].pc = "wait"
                  /\ Len(attempts') = Len(attempts) + 1
                  /\ proc'[p].att = Len(attempts')
                  /\ TokenKey \notin DOMAIN tokenCache'
                  /\ Sent(p)' = 1
            /\ (proc[p].pc = "wait" /\ proc[p].retry) =>
                  \/ proc'[p] = proc[p]
                  \/ proc'[p] = IdleProc
                  \/ /\ proc'[p].pc = "sent"
                     /\ proc'[p].tok = proc[p].att
                     /\ Sent(p)' = 2
            /\ (proc[p].pc = "sent" /\ proc[p].retry) =>
                  proc'[p] \in {proc[p], IdleProc}]_vars

\* C13 witness: a call has re-sent its request with the token of the login
\* request issued on the 401.
C13_Witness ==
    \E p \in Procs :
        /\ proc[p].pc = "sent"
        /\ proc[p].retry
        /\ Sent(p) = 2
        /\ proc[p].tok = Len(attempts)

-----------------------------------------------------------------------------
(* Properties of the HTTP session registry, continued *)

\* C14: stop() drops no session from the registry on whose protocol engine
\* close has not been invoked, whatever initialization requests run
\* concurrently.
C14_StopClosesAll ==
    \A s \in Sids : removal[s] # "stop"

\* C15: the HTTP listener is released only when every close that stop()
\* started has settled, and once they have settled, resolved or rejected,
\* stop() can go on to release it.
C15_ListenerAfterCloses ==
    /\ (phase = "stopped" => closes.stop = {})
    /\ (phase = "stopping" /\ closes.stop = {} => ENABLED StopFinish)

\* C15 witness: the listener has been released after a close started by
\* stop() was rejected.
C15_Witness ==
    /\ phase = "stopped"
    /\ closes.stopFailed

-----------------------------------------------------------------------------
(* Properties of the credential manager, continued *)

Failed(d) == d.out \notin {"ok", "none"}

\* C16: when a login request started by getToken() fails, every caller that
\* awaited it receives that one failure, authPromise is null when the
\* failure has been delivered, and authPromise never refers to a request
\* that has been answered, so a later getToken() that finds no usable token
\* issues a new request.
C16_FailureClearsMarker ==
    /\ (lastDone.by = "getToken" /\ Failed(lastDone)) =>
          /\ lastDone.errs \subseteq {AuthError(lastDone.out)}
          /\ \A p \in lastDone.waiters : proc[p] = IdleProc
          /\ lastDone.promise = NoPromise
          /\ authPromise = NoPromise
    /\ (authPromise # NoPromise => authPromise \in Outstanding)

\* C16 witness: a login request started by getToken() has failed with every
\* caller awaiting it.
C16_Witness ==
    /\ lastDone.by = "getToken"
    /\ Failed(lastDone)
    /\ lastDone.waiters = Procs

\* C17: a failed login request surfaces 'Invalid credentials' when the
\* endpoint answered 401 and the generic 'Authentication failed' condition
\* for every other failure, a response without token included.
C17_TwoConditions ==
    Failed(lastDone) =>
        lastDone.err = IF lastDone.out = "401" THEN "Invalid credentials"
                       ELSE "Authentication failed"

\* C18: from the return of clearToken() until a login request succeeds, no
\* token is stored, the tracked expiry is 0 and isAuthenticated() is false;
\* and authPromise is null from the return of clearToken() until the next
\* getToken().
C18_ClearedNotAuthenticated ==
    /\ sinceClear =>
          /\ TokenKey \notin DOMAIN tokenCache
          /\ tokenExpiresAt = 0
          /\ ~isAuthenticated(tokenCache, tokenExpiresAt, now)
    /\ (freshPending => authPromise = NoPromise)

\* C18 witness: after a token had been stored and clearToken() was called,
\* a login request has failed, and isAuthenticated() is still false.
C18_Witness ==
    /\ sinceClear
    /\ Failed(lastDone)
    /\ NumCompleted = 2

\* C19: getToken() returns the stored token, with no login request, exactly
\* when a token is readable from the cache and the tracked expiry is greater
\* than now + refresh threshold; every other caller awaits a login request
\* that is in flight.
C19_CachedIffUsable ==
    /\ (lastGet.path # "none" => (lastGet.path = "cached" <=> lastGet.usable))
    /\ \A p \in Procs :
          proc[p].pc = "wait" =>
              /\ proc[p].att \in Outstanding
              /\ proc[p].tok = Null

\* C19 witness: getToken() found a readable token inside the refresh
\* threshold and issued a login request.
C19_Witness ==
    /\ lastGet.path = "new"
    /\ lastGet.readable
    /\ ~lastGet.usable

-----------------------------------------------------------------------------
(* Properties of the reference diagnostics, continued *)

\* the priority as documented: the first option equal to the target ignoring
\* case, else the first option containing it or contained in it, else the
\* best-scoring option when its score meets the threshold, else none
DocumentedMatch(tgt, opts) ==
    LET targetLower == toLowerCase(tgt)
        IsExact(opt) == toLowerCase(opt) = targetLower
        IsSubstring(opt) == \/ includes(toLowerCase(opt), targetLower)
                            \/ includes(targetLower, toLowerCase(opt))
        exactMatch == FindFirst(opts, {i \in 1..Len(opts) : IsExact(opts[i])})
        substringMatch ==
            FindFirst(opts, {i \in 1..Len(opts) : IsSubstring(opts[i])})
    IN  IF exactMatch.found THEN exactMatch
        ELSE IF substringMatch.found THEN substringMatch
        ELSE IF /\ Len(opts) > 0
                /\ MeetsThreshold(BestOption(targetLower, opts).similarity)
             THEN Match(BestOption(targetLower, opts).option)
        ELSE NoMatch

RECURSIVE EditDistance(_, _)
EditDistance(s, t) ==
    IF Len(s) = 0 THEN Len(t)
    ELSE IF Len(t) = 0 THEN Len(s)
    ELSE LET s1 == SubSeq(s, 1, Len(s) - 1)
             t1 == SubSeq(t, 1, Len(t) - 1)
         IN  IF s[Len(s)] = t[Len(t)] THEN EditDistance(s1, t1)
             ELSE 1 + Min3(EditDistance(s1, t1), EditDistance(s, t1),
                           EditDistance(s1, t))

\* 10 * (1 - distance / max length) of the lower-cased strings, as a
\* fraction [num, den]
Score(tgt, opt) ==
    LET a == toLowerCase(tgt)
        b == toLowerCase(opt)
        m == Max(Len(a), Len(b))
    IN  [num |-> 10 * (m - EditDistance(a, b)), den |-> m]

ScoreAtLeast(x, y) == x.num * y.den >= y.num * x.den
AtLeastSixTenths(x) == x.num >= 6 * x.den

\* no option equals the target or contains it or is contained in it
NoDirectMatch(tgt, opts) ==
    \A i \in 1..Len(opts) :
        /\ ~includes(toLowerCase(opts[i]), toLowerCase(tgt))
        /\ ~includes(toLowerCase(tgt), toLowerCase(opts[i]))

ShortInputs(tgt, opts) ==
    /\ Len(tgt) <= Len(BoundaryTarget)
    /\ \A i \in 1..Len(opts) : Len(opts[i]) <= Len(BoundaryTarget)

-----------------------------------------------------------------------------
(* Properties of the cache, continued *)

\* C22: over any sequence of startCacheCleanup() and stopCacheCleanup()
\* calls at most one sweep timer is active, and it is the one
\* cleanupInterval holds; startCacheCleanup() while a timer is active leaves
\* that timer unchanged and raises no error, and stopCacheCleanup() while
\* none is active changes nothing.
C22_OneSweepTimer ==
    /\ Cardinality(cleanup.active) <= 1
    /\ cleanup.active = IF cleanup.interval = Null THEN {} ELSE {cleanup.interval}
    /\ ~cleanup.raised
    /\ (cleanup.op = "start" /\ cleanup.before # Null => cleanup.same)
    /\ (cleanup.op = "stop" /\ cleanup.before = Null => cleanup.same)

\* C22 witness: startCacheCleanup() was called while the timer of an
\* earlier call was active, after a stop and a restart.
C22_Witness ==
    /\ cleanup.op = "start"
    /\ cleanup.before # Null
    /\ cleanup.same
    /\ cleanup.interval = MaxTimers
    /\ cleanup.active = {MaxTimers}

-----------------------------------------------------------------------------
(* Properties of the origin validation *)

\* the origin is on the allow-list: it is an entry, has the web origin of
\* an entry, or its host is an entry
Listed(allowed, origin) ==
    \E i \in 1..Len(allowed) :
        \/ allowed[i] = origin
        \/ allowed[i] \in WebUrls /\ origin \in WebUrls
                                  /\ UrlOrigin(origin) = UrlOrigin(allowed[i])
        \/ ~IsUrl(allowed[i]) /\ IsUrl(origin) /\ UrlHostname(origin) = allowed[i]

\* C23: with no allow-list configured every request passes the origin
\* check; with one configured, a request whose Origin (or Referer) is not on
\* the list or is no well-formed URL is answered 403 and reaches no route:
\* it creates, refreshes and deletes no session.
C23_OriginChecked ==
    lastResp.op # "none" =>
        /\ (allowedOrigins = NoAllowList => lastResp.status # "403")
        /\ (/\ allowedOrigins # NoAllowList
            /\ lastOrigin # NoHeader
            /\ (~IsUrl(lastOrigin) \/ ~Listed(allowedOrigins, lastOrigin)))
                => /\ lastResp.status = "403"
                   /\ lastResp.conn = 0
                   /\ lastResp.regSame

-----------------------------------------------------------------------------
(* Properties of the HTTP session registry, continued *)

\* the registry entries of the transport of pair c
EntriesOf(c) == {s \in Registered : transports[s].conn = c}

\* C24: a session id is in the registry only if the session-initialized
\* callback of its transport has fired; a transport registers at most one
\* id, which it keeps (a duplicate callback is ignored); and when the
\* initialization request has completed without the callback, or has
\* thrown, no registry entry of that transport is left.
C24_RegisteredByCallback ==
    /\ [](/\ \A s \in Registered :
                /\ conns[transports[s].conn].init
                /\ conns[transports[s].conn].sid = s
          /\ \A c \in 1..Len(conns) :
                /\ Cardinality(EntriesOf(c)) <= 1
                /\ (conns[c].sid # NoSid <=> conns[c].init)
                /\ (conns[c].pc = "done" /\ (~conns[c].init \/ conns[c].threw)
                        => EntriesOf(c) = {}))
    /\ [][\A c \in 1..Len(conns) :
            conns[c].sid # NoSid => conns'[c].sid = conns[c].sid]_vars

\* C24 witness: the initialization request threw after the callback had
\* registered the session, and the entry is gone while another session is
\* registered.
C24_Witness ==
    \E c \in 1..Len(conns) :
        /\ conns[c].pc = "done"
        /\ conns[c].init
        /\ conns[c].threw
        /\ removal[conns[c].sid] = "initerror"
        /\ Registered # {}


\* C25: the closure notification of a transport removes the session of that
\* transport from the registry when it is still there and changes nothing
\* otherwise (DELETE or the idle sweep removed it before); it removes no
\* other session.
C25_OnCloseOwnSession ==
    /\ [](lastResp.op = "onclose" =>
            /\ conns[lastResp.conn].sid \notin Registered
            /\ (~lastResp.known => lastResp.regSame))
    /\ [][lastResp'.op = "onclose" =>
            /\ DOMAIN transports' = Registered \ {conns[lastResp'.conn].sid}
            /\ \A s \in DOMAIN transports' : transports'[s] = transports[s]]_vars

\* C25 witness: the closure notification of a session the idle sweep had
\* removed arrives while another session is registered, and changes nothing.
C25_Witness ==
    /\ lastResp.op = "onclose"
    /\ ~lastResp.known
    /\ lastResp.regSame
    /\ conns[lastResp.conn].sid \in swept
    /\ Registered # {}


\* C26: a POST or GET routed to a registered session sets the lastActivity
\* of that session to the current time, and the idle sweep removes no
\* session to which a request was routed (or which was registered) within
\* the session timeout before the sweep.
C26_RoutedRefreshes ==
    /\ [](lastResp.status \in {"routed", "stream"} =>
            /\ lastResp.sid \in Registered
            /\ transports[lastResp.sid].lastActivity = now)
    /\ [][\A s \in swept' \ swept :
            now - transports[s].routed > SessionTimeout]_vars

\* C26 witness: an idle sweep has removed a session and kept one that was
\* registered earlier and had a request routed to it since.
C26_Witness ==
    /\ justSwept
    /\ \E s \in Registered, z \in swept :
          /\ s < z
          /\ transports[s].routed = transports[s].lastActivity
          /\ Idle(s) <= SessionTimeout


\* C27: one run of the idle sweep removes exactly the sessions whose
\* now - lastActivity is greater than the session timeout; every other
\* session stays in the registry with its engine, transport and
\* lastActivity unchanged.
C27_SweepRemovesExactlyIdle ==
    [][lastResp'.op = "sweep" =>
          /\ DOMAIN transports' =
                {s \in Registered : now - transports[s].lastActivity <= SessionTimeout}
          /\ \A s \in DOMAIN transports' : transports'[s] = transports[s]
          /\ conns' = conns]_vars

\* C27 witness: a sweep has removed a session and kept one that was idle
\* for exactly the session timeout.
C27_Witness ==
    /\ lastResp.op = "sweep"
    /\ swept # {}
    /\ \E s \in Registered : Idle(s) = SessionTimeout


\* the times early enough for the timeout to pass within the clock's range
EarlyTimes == 0..(MaxTime - SessionTimeout - 1)

ExactNameIn(tgt, names) ==
    \E i \in 1..Len(names) : toLowerCase(names[i]) = toLowerCase(tgt)

\* C29: when a filtered list query fails with HTTP 400 and the rejected
\* literal equals one of the available reference names ignoring case, the
\* catch block composes no candidate message and produces no suggestion.
C29_NoDiagnosisOnExactMatch ==
    (/\ ldc.pc = "done"
     /\ ldc.status = "400"
     /\ ldc.attr = "reference"
     /\ ExactNameIn(target, options))
        => /\ ~ldc.composed
           /\ ~suggestion.called \/ ~suggestion.result.found

\* the catch block takes one of its fall-back paths: the filter has no
\* equality clause, the attribute is no reference field, the schema lookup
\* failed, or the fetch of the names failed or returned none
FallBack ==
    \/ ldc.filter = "other"
    \/ ldc.filter = "clause" /\ ldc.attr \in {"string", "missing", "error"}
    \/ ldc.filter = "clause" /\ ldc.attr = "reference"
                             /\ (ldc.fetch = "error" \/ Len(options) = 0)

\* C30: a filtered list query answered 400 whose filter has no equality
\* clause, or whose attribute is no reference field, or whose schema lookup
\* fails, or whose reference names cannot be fetched or are none, raises
\* the generic error of the list query, never the failure of the lookup,
\* and composes no message.
C30_FallBackToGeneric ==
    (ldc.pc = "done" /\ ldc.status = "400" /\ FallBack)
        => /\ ldc.raised = "generic"
           /\ ~ldc.composed
           /\ ~suggestion.called

C30_Witness ==
    /\ ldc.pc = "done"
    /\ ldc.status = "400"
    /\ ldc.filter = "clause"
    /\ ldc.attr = "reference"
    /\ ldc.fetch = "error"
    /\ ldc.raised = "generic"

\* the filter of the call is more complex than one clause
ComplexFilter ==
    \E lit \in Targets : \/ ldc.text = FilterText("double", lit)
                         \/ ldc.text = FilterText("late", lit)

\* C31: a filter that is more than one clause $attribute$ = 'literal' (two
\* clauses joined by AND, a clause after another condition) is not
\* diagnosed when its query fails with HTTP 400: no schema lookup, no fetch
\* of names, no suggestion, no composed message; the generic error is raised.
C31_ComplexNotDiagnosed ==
    (ldc.pc = "done" /\ ldc.status = "400" /\ ComplexFilter)
        => /\ ldc.attr = "none"
           /\ ldc.fetch = "none"
           /\ ~suggestion.called
           /\ ~ldc.composed
           /\ ldc.raised = "generic"

\* C32: listReferenceValues(type, limit) requests min(limit, 200) entities;
\* a successful fetch stores the names under (type, limit) with an expiry
\* five minutes later; a call with a (type, limit) stored at most five
\* minutes before is answered with the stored names and sends no request;
\* a failed fetch returns no names and leaves the cache as it was.
C32_ReferenceValuesCached ==
    /\ \A c \in RefCallers :
          refs.calls[c].pc = "fetching"
              => /\ refs.calls[c].requested <= refs.calls[c].limit
                 /\ refs.calls[c].requested <= 200
                 /\ refs.calls[c].requested \in {refs.calls[c].limit, 200}
    /\ (refs.last.op = "stored" /\ now <= refs.last.at + RefValuesTTL)
          => LET key == cacheKey(refs.last.type, refs.last.limit) IN
             /\ key \in DOMAIN refs.cache
             /\ refs.cache[key] = [value |-> refs.last.result,
                                   expiresAt |-> refs.last.at + RefValuesTTL]
    /\ \A type \in RefTypes, limit \in RefLimits :
          (/\ refs.last.op \in {"hit", "miss"}
           /\ refs.last.type = type /\ refs.last.limit = limit
           /\ refs.stored[<<type, limit>>].set
           /\ refs.last.at <= refs.stored[<<type, limit>>].at + RefValuesTTL)
              => /\ refs.last.op = "hit"
                 /\ ~refs.last.sent
                 /\ refs.last.result = refs.stored[<<type, limit>>].names
    /\ refs.last.op = "failed" => refs.last.same /\ refs.last.result = <<>>

C32_Witness ==
    /\ refs.last.op = "hit"
    /\ refs.last.limit = 201
    /\ refs.last.result = <<>>
    /\ refs.last.at = refs.stored[<<refs.last.type, refs.last.limit>>].at + RefValuesTTL
    /\ refs.requests = 1

\* C33: a close() that is rejected does not abort cleanup.  A DELETE whose
\* close was rejected still answers 204 with the session out of the
\* registry; when a close started by the idle sweep is rejected, every
\* session the sweep listed is out of the registry and has had close
\* invoked; when a close started by stop() is rejected, stop() still waits
\* for the other closes and then empties the registry.
C33_CloseFailureTolerated ==
    /\ []((lastResp.op = "DELETE" /\ lastResp.failed)
            => /\ lastResp.status = "204"
               /\ lastResp.sid \notin Registered)
    /\ []((lastResp.op = "sweepclose" /\ lastResp.failed)
            => /\ conns[lastResp.conn].sid \notin Registered
               /\ \A s \in swept : s \notin Registered /\ removal[s] # "none")
    /\ [][(closes.stopFailed /\ phase = "stopping" /\ phase' = "stopped")
            => /\ closes.stop = {}
               /\ transports' = EmptyRegistry]_vars

C33_Witness ==
    /\ lastResp.op = "DELETE"
    /\ lastResp.failed
    /\ lastResp.status = "204"
    /\ Registered # {}

\* a template code that is not empty and holds only letters, digits,
\* underscores and hyphens
CodeLetters == {"a", "Z"}
CodeDigits == {"0"}
WellFormed(code) ==
    /\ code # <<>>
    /\ \A i \in 1..Len(code) : code[i] \in CodeLetters \cup CodeDigits \cup {"_", "-"}

\* C34: a data-card operation with a template code that is empty or holds
\* a character other than a letter, a digit, an underscore or a hyphen
\* raises the validation error having sent no API request and asked for no
\* token, and runs once; in a multi-template search one such code among the
\* codes keeps every request from being sent.
C34_ValidatedBeforeNetwork ==
    (dcop.pc # "idle" /\ \E i \in 1..Len(dcop.codes) : ~WellFormed(dcop.codes[i]))
        => /\ dcop.pc = "done"
           /\ dcop.raised = "validation"
           /\ dcop.sent = {}
           /\ dcop.tokens = 0
           /\ dcop.runs = 1

C34_Witness ==
    /\ dcop.kind = "multi"
    /\ Len(dcop.codes) = 2
    /\ WellFormed(dcop.codes[1])
    /\ dcop.codes[2] = <<"a", " ">>
    /\ dcop.raised = "validation"
    /\ dcop.sent = {}

\* a step in which cleanExpired() runs on the instance, called directly or
\* by the cleanup timer
CleanExpiredStep == CCleanExpired \/ \E t \in 1..MaxTimers : CleanupTimerFires(t)

\* C35: cleanExpired() removes exactly the entries whose expiry has passed
\* and leaves every other entry as it was; in any interleaving with set, get,
\* delete and clear it removes no entry that a get() at the same instant
\* returns, and that get() returns the same value after it.
C35_CleanExpiredExact ==
    [][CleanExpiredStep =>
          /\ DOMAIN cache' = {k \in DOMAIN cache : ~(now > cache[k].expiresAt)}
          /\ \A k \in DOMAIN cache' : cache'[k] = cache[k]
          /\ \A k \in Keys :
                CacheGet(cache, k, now) # Null
                    => /\ k \in DOMAIN cache'
                       /\ CacheGet(cache', k, now) = CacheGet(cache, k, now)]_vars

C35_Witness ==
    /\ cleanup.op = "fire"
    /\ written["k1"].set /\ written["k1"].expiresAt < now /\ "k1" \notin DOMAIN cache
    /\ "k2" \in DOMAIN cache /\ cache["k2"].expiresAt = now

\* C36: the bridge adopts a session id from a response only while it holds
\* none, every message forwarded while it holds an id carries that id, and
\* a message forwarded after the idle timeout has elapsed since the last
\* activity carries no session id.
C36_BridgeSession ==
    /\ (bridge.last.op = "response" /\ bridge.last.held # NoSid)
          => bridge.sessionId = bridge.last.held
    /\ (bridge.last.op = "forward" /\ bridge.last.held # NoSid)
          => bridge.last.header = bridge.last.held
    /\ (bridge.last.op = "forward" /\ bridge.last.idle > ProxySessionTimeout)
          => bridge.last.header = NoSid

\* the part of C36 about the time after a clear: once the timeout check has
\* cleared the id, the bridge holds none until an initialization forwarded
\* without an id is answered
C36_ClearedUntilInit ==
    (bridge.last.op = "response" /\ bridge.last.held = NoSid
                                 /\ bridge.sessionId # NoSid)
        => bridge.last.init /\ bridge.last.header = NoSid

\* the pairs whose close(), invoked by a DELETE handler, has not settled
DeleteClosing ==
    {c \in 1..Len(conns) : conns[c].sid # NoSid /\ delWait[conns[c].sid] > 0}

\* C37: close is invoked at most once on the protocol engine of a session:
\* no engine has two closes pending from two of DELETE, the idle sweep and
\* stop(), and a DELETE invokes close only on a session on which no close
\* was invoked before.
C37_CloseAtMostOnce ==
    /\ closes.sweep \cap closes.stop = {}
    /\ closes.sweep \cap DeleteClosing = {}
    /\ closes.stop \cap DeleteClosing = {}
    /\ (lastResp.op = "DELETE" /\ lastResp.status = "closing")
          => lastResp.removal = "none"

\* C38: the completion of a login request started by getToken() clears the
\* in-flight marker only of that request: a step in which a request is
\* answered sets the marker to null only if the marker was that request's.
C38_FinallyClearsOwnMarker ==
    [][\A a \in 1..Len(attempts) :
          (Len(attempts') = Len(attempts)
              /\ attempts[a].pending /\ ~attempts'[a].pending
              /\ authPromise # NoPromise /\ authPromise' = NoPromise)
            => authPromise = a]_vars

\* C39: a step in which a login request is answered with a failure leaves
\* the token entry of the cache and the tracked expiry as they were; one in
\* which it is answered successfully writes both, the entry with the token
\* of that request and both expiries one token lifetime ahead; the start of
\* a login writes neither.
C39_FailureWritesNothing ==
    [][/\ \A a \in 1..Len(attempts) :
             (attempts[a].pending /\ ~attempts'[a].pending)
                => IF lastDone'.out = "ok"
                   THEN /\ TokenKey \in DOMAIN tokenCache'
                        /\ tokenCache'[TokenKey] =
                              [value |-> a, expiresAt |-> now + AuthTokenTTL]
                        /\ tokenExpiresAt' = now + AuthTokenTTL
                   ELSE /\ tokenCache' = tokenCache
                        /\ tokenExpiresAt' = tokenExpiresAt
       /\ (Len(attempts') > Len(attempts)
              /\ attempts'[Len(attempts')].by = "login")
             => /\ tokenCache' = tokenCache
                /\ tokenExpiresAt' = tokenExpiresAt]_vars

\* C39 witness: a login request has failed while a token obtained by an
\* earlier one was stored, and the entry and the expiry are still there
C39_Witness ==
    /\ lastDone.att # 0 /\ lastDone.out \in Outcomes \ {"ok"}
    /\ TokenKey \in DOMAIN tokenCache
    /\ tokenCache[TokenKey].value # lastDone.att
    /\ tokenExpiresAt > 0

\* C40: a POST /mcp that carries a session id absent from the registry is
\* answered with error -32000 whatever its body, an initialization request
\* included: it reaches no protocol engine, creates none and leaves the
\* registry unchanged.  A protocol engine is created only by a POST without
\* session id whose body is an initialization request, and an id enters the
\* registry only for an engine so created.
C40_UnknownIdNeverInitializes ==
    /\ []((lastResp.op = "POST" /\ lastResp.sid # NoSid /\ ~lastResp.known)
            => /\ lastResp.status = "-32000"
               /\ lastResp.conn = 0
               /\ lastResp.regSame)
    /\ [][/\ (lastResp'.op = "POST" /\ lastResp'.sid # NoSid
                                   /\ ~lastResp'.known)
                => conns' = conns /\ transports' = transports
          /\ Len(conns') > Len(conns)
                => /\ lastResp'.op = "POST"
                   /\ lastResp'.sid = NoSid
                   /\ lastResp'.isInit
          /\ \A s \in (DOMAIN transports') \ (DOMAIN transports) :
                /\ transports'[s].conn \in 1..Len(conns)
                /\ conns[transports'[s].conn].pc = "handle"]_vars

\* C40 witness: an initialization request carrying an unregistered id is
\* rejected while another session is registered
C40_Witness ==
    /\ lastResp.op = "POST"
    /\ lastResp.sid # NoSid
    /\ ~lastResp.known
    /\ lastResp.isInit
    /\ lastResp.status = "-32000"
    /\ Registered # {}

=============================================================================
